---- MODULE Spec2Model ----
(***************************************************************************)
(* A model of cargo-revolve's build command (src/src/commands/build.rs):   *)
(* the orchestrator `run`, the asset resolver `expand_assets`, the process *)
(* steps and the artifact verifier `verify_package`.                       *)
(*                                                                         *)
(* Strings are sequences of one-character strings, so that the string and  *)
(* path operations of the code (ends_with, starts_with, PathBuf equality,  *)
(* join, parent, sort) are computed and not assumed.                       *)
(***************************************************************************)
EXTENDS Integers, Sequences, FiniteSets, TLC

VARIABLES
  pc,            \* position of `run` in the pipeline
  flags,         \* [dry_run, no_archive, verify]: the arguments of `run`
  config,        \* the caller's RevolveConfig
  world,         \* the environment: search path, project tree, exit statuses
  disk,          \* the files a run can create, delete or read back
  spawned,       \* every process started through stream_command, in order
  steps,         \* the pipeline steps entered so far, in order
  error,         \* None, or Some(error) once a step failed
  run_state,     \* locals of `run`: mutable_config, created_dirs, archive, spec, artifacts
  initial_assets, project_tree, expanded,   \* expand_assets alone: input and result
  verify_in, verify_out,                    \* verify_package alone: input and result
  stream                                    \* stream_command alone: child, pipes, readers

vars == <<pc, flags, config, world, disk, spawned, steps, error, run_state,
          initial_assets, project_tree, expanded, verify_in, verify_out, stream>>

-----------------------------------------------------------------------------
(* Option<T> *)

None == <<>>
Some(x) == <<x>>
IsSome(o) == o # <<>>
Unwrap(o) == o[1]

-----------------------------------------------------------------------------
(* Strings *)

\* The byte value of a character: String's Ord compares bytes.
CharOrd(c) ==
  CASE c = "-" -> 45 [] c = "." -> 46 [] c = "/" -> 47
    [] c = "0" -> 48 [] c = "1" -> 49 [] c = "2" -> 50 [] c = "3" -> 51
    [] c = "4" -> 52 [] c = "5" -> 53 [] c = "6" -> 54 [] c = "7" -> 55
    [] c = "8" -> 56 [] c = "9" -> 57
    [] c = "a" -> 97 [] c = "b" -> 98 [] c = "c" -> 99 [] c = "d" -> 100
    [] c = "e" -> 101 [] c = "f" -> 102 [] c = "g" -> 103 [] c = "m" -> 109
    [] c = "n" -> 110 [] c = "p" -> 112 [] c = "r" -> 114 [] c = "s" -> 115
    [] c = "t" -> 116 [] c = "u" -> 117 [] c = "x" -> 120 [] c = "y" -> 121
    [] OTHER -> 122

starts_with(s, prefix) ==
  Len(s) >= Len(prefix) /\ SubSeq(s, 1, Len(prefix)) = prefix

ends_with(s, c) == s # <<>> /\ s[Len(s)] = c

RECURSIVE StrLess(_, _)
StrLess(s, t) ==
  IF t = <<>> THEN FALSE
  ELSE IF s = <<>> THEN TRUE
  ELSE IF s[1] # t[1] THEN CharOrd(s[1]) < CharOrd(t[1])
  ELSE StrLess(Tail(s), Tail(t))

RECURSIVE JoinWith(_, _)
JoinWith(comps, sep) ==
  IF comps = <<>> THEN <<>>
  ELSE IF Len(comps) = 1 THEN comps[1]
  ELSE comps[1] \o sep \o JoinWith(Tail(comps), sep)

-----------------------------------------------------------------------------
(* std::path: a path is a string; equality, parent and strip_prefix work   *)
(* on its components.                                                      *)

RootDir == <<"/">>

RECURSIVE SplitSep(_, _, _)
SplitSep(s, i, cur) ==
  IF i > Len(s) THEN (IF cur = <<>> THEN <<>> ELSE <<cur>>)
  ELSE IF s[i] = "/"
    THEN (IF cur = <<>> THEN <<>> ELSE <<cur>>) \o SplitSep(s, i + 1, <<>>)
    ELSE SplitSep(s, i + 1, Append(cur, s[i]))

\* Path::components: repeated separators, a trailing separator and "." (but
\* a leading one) are normalised away; an absolute path starts with RootDir.
Components(s) ==
  LET parts == SplitSep(s, 1, <<>>)
      NotDot(c) == c # <<".">>
  IN IF s # <<>> /\ s[1] = "/"
       THEN <<RootDir>> \o SelectSeq(parts, NotDot)
       ELSE IF parts # <<>> /\ parts[1] = <<".">>
         THEN <<parts[1]>> \o SelectSeq(Tail(parts), NotDot)
         ELSE SelectSeq(parts, NotDot)

\* The string of a component sequence.
PathString(comps) ==
  IF comps # <<>> /\ comps[1] = RootDir
    THEN <<"/">> \o JoinWith(Tail(comps), <<"/">>)
    ELSE JoinWith(comps, <<"/">>)

\* PartialEq for Path / PathBuf.
PathEq(p, q) == Components(p) = Components(q)

\* Path::join (PathBuf::push): an absolute argument replaces the path, and a
\* separator is added unless the path is empty or already ends with one.
PathJoin(p, rel) ==
  IF rel # <<>> /\ rel[1] = "/" THEN rel
  ELSE IF p = <<>> \/ ends_with(p, "/") THEN p \o rel
  ELSE p \o <<"/">> \o rel

\* Path::parent: None for the root and for the empty path.
PathParent(p) ==
  LET comps == Components(p)
  IN IF comps = <<>> \/ comps = <<RootDir>> THEN None
     ELSE Some(PathString(SubSeq(comps, 1, Len(comps) - 1)))

-----------------------------------------------------------------------------
(* The project tree on disk, as expand_assets reads it: a function from    *)
(* the directories under the project root (component sequences) to their   *)
(* listings, in the order the file system enumerates them.                 *)

is_dir(tree, comps) == comps \in DOMAIN tree

\* A walk that lists the root and its children and does not descend.
WalkDir_one_level(tree, dir) ==
  <<[path |-> dir, is_dir |-> TRUE]>>
  \o [i \in 1..Len(tree[dir]) |->
        [path |-> Append(dir, tree[dir][i].name), is_dir |-> tree[dir][i].is_dir]]

\* WalkDir::new(root): the root first, then depth first in listing order.
RECURSIVE WalkDir(_, _), WalkChildren(_, _, _)
WalkDir(tree, dir) ==
  <<[path |-> dir, is_dir |-> TRUE]>> \o WalkChildren(tree, dir, 1)
WalkChildren(tree, dir, i) ==
  IF i > Len(tree[dir]) THEN <<>>
  ELSE LET child == Append(dir, tree[dir][i].name)
       IN (IF tree[dir][i].is_dir /\ child \in DOMAIN tree
             THEN WalkDir(tree, child)
             ELSE <<[path |-> child, is_dir |-> tree[dir][i].is_dir]>>)
          \o WalkChildren(tree, dir, i + 1)

-----------------------------------------------------------------------------
(* expand_assets (build.rs 681-780)                                        *)

\* A set of the strings: paths that differ only in a separator are both kept.
dirs_insert_by_string(unique_dirs, p) == unique_dirs \cup {p}

\* HashSet<PathBuf>::insert: an equal path already in the set is kept.
dirs_insert(unique_dirs, p) ==
  IF \E q \in unique_dirs : PathEq(p, q) THEN unique_dirs ELSE unique_dirs \cup {p}

\* A lookup that compares the destination strings and not the paths.
map_get_by_string(destination_map, p) ==
  LET hits == {e \in destination_map : e.dest = p}
  IN IF hits = {} THEN None ELSE Some((CHOOSE e \in hits : TRUE).source)

\* HashMap<PathBuf, String>::get on destination_map, a set of [dest, source].
map_get(destination_map, p) ==
  LET hits == {e \in destination_map : PathEq(e.dest, p)}
  IN IF hits = {} THEN None ELSE Some((CHOOSE e \in hits : TRUE).source)

DuplicateDestination(dest_path, existing_source, source) ==
  [kind |-> "DuplicateDestination", dest |-> dest_path,
   first |-> existing_source, second |-> source]

InvalidAssetSource(source) ==
  [kind |-> "InvalidAssetSource", dest |-> <<>>, first |-> source, second |-> source]

\* Vec<String>::sort on the strings of the set.
RECURSIVE sort(_)
sort(S) ==
  IF S = {} THEN <<>>
  ELSE LET least == CHOOSE x \in S : \A y \in S \ {x} : StrLess(x, y)
       IN <<least>> \o sort(S \ {least})

\* The inner loop with the mkdir test on walked directories left out.
expand_entry_ignoring_mkdir(asset, entry, st) ==
  LET source_dir == Components(asset.source)
      relative_path ==
        PathString(SubSeq(entry.path, Len(source_dir) + 1, Len(entry.path)))
      dest_path == PathJoin(asset.dest, relative_path)
      existing_source == map_get(st.destination_map, dest_path)
  IN IF entry.is_dir
       THEN [st EXCEPT !.unique_dirs = dirs_insert(@, dest_path)]
       ELSE IF IsSome(existing_source)
         THEN [st EXCEPT !.err = Some(DuplicateDestination(
                             dest_path, Unwrap(existing_source), asset.source))]
         ELSE [st EXCEPT
                 !.destination_map = @ \cup {[dest |-> dest_path, source |-> asset.source]},
                 !.final_assets = Append(@, [source |-> PathString(entry.path),
                                             dest |-> dest_path,
                                             mode |-> asset.mode,
                                             mkdir |-> asset.mkdir])]

\* The inner loop giving the expanded files no mode of their own.
expand_entry_without_mode(asset, entry, st) ==
  LET source_dir == Components(asset.source)
      relative_path ==
        PathString(SubSeq(entry.path, Len(source_dir) + 1, Len(entry.path)))
      dest_path == PathJoin(asset.dest, relative_path)
      existing_source == map_get(st.destination_map, dest_path)
  IN IF entry.is_dir
       THEN IF asset.mkdir
              THEN [st EXCEPT !.unique_dirs = dirs_insert(@, dest_path)]
              ELSE st
       ELSE IF IsSome(existing_source)
         THEN [st EXCEPT !.err = Some(DuplicateDestination(
                             dest_path, Unwrap(existing_source), asset.source))]
         ELSE [st EXCEPT
                 !.destination_map = @ \cup {[dest |-> dest_path, source |-> asset.source]},
                 !.final_assets = Append(@, [source |-> PathString(entry.path),
                                             dest |-> dest_path,
                                             mode |-> None,
                                             mkdir |-> asset.mkdir])]

\* One entry of the walk of a directory asset (the body of the inner loop).
expand_entry(asset, entry, st) ==
  LET source_dir == Components(asset.source)
      relative_path ==
        PathString(SubSeq(entry.path, Len(source_dir) + 1, Len(entry.path)))
      dest_path == PathJoin(asset.dest, relative_path)
      existing_source == map_get(st.destination_map, dest_path)
  IN IF entry.is_dir
       THEN IF asset.mkdir
              THEN [st EXCEPT !.unique_dirs = dirs_insert(@, dest_path)]
              ELSE st
       ELSE IF IsSome(existing_source)
         THEN [st EXCEPT !.err = Some(DuplicateDestination(
                             dest_path, Unwrap(existing_source), asset.source))]
         ELSE [st EXCEPT
                 !.destination_map = @ \cup {[dest |-> dest_path, source |-> asset.source]},
                 !.final_assets = Append(@, [source |-> PathString(entry.path),
                                             dest |-> dest_path,
                                             mode |-> asset.mode,
                                             mkdir |-> asset.mkdir])]

RECURSIVE expand_entries(_, _, _, _)
expand_entries(asset, entries, i, st) ==
  IF i > Len(entries) \/ IsSome(st.err) THEN st
  ELSE expand_entries(asset, entries, i + 1, expand_entry(asset, entries[i], st))

\* A directory asset: its source ends with '/'.
expand_directory_asset(asset, tree, st) ==
  IF ~is_dir(tree, Components(asset.source))
    THEN [st EXCEPT !.err = Some(InvalidAssetSource(asset.source))]
    ELSE expand_entries(asset, WalkDir(tree, Components(asset.source)), 1,
           IF asset.mkdir
             THEN [st EXCEPT !.unique_dirs = dirs_insert(@, asset.dest)]
             ELSE st)

\* A single file asset.
expand_file_asset(asset, st) ==
  LET dest_path == asset.dest
      parent == PathParent(dest_path)
      with_parent ==
        IF asset.mkdir /\ IsSome(parent) /\ Components(Unwrap(parent)) # <<>>
          THEN [st EXCEPT !.unique_dirs = dirs_insert(@, Unwrap(parent))]
          ELSE st
      existing_source == map_get(st.destination_map, dest_path)
  IN IF IsSome(existing_source)
       THEN [with_parent EXCEPT !.err = Some(DuplicateDestination(
                                   dest_path, Unwrap(existing_source), asset.source))]
       ELSE [with_parent EXCEPT
               !.destination_map = @ \cup {[dest |-> dest_path, source |-> asset.source]},
               !.final_assets = Append(@, asset)]

RECURSIVE expand_loop(_, _, _, _)
expand_loop(assets, tree, i, st) ==
  IF i > Len(assets) \/ IsSome(st.err) THEN st
  ELSE expand_loop(assets, tree, i + 1,
         IF ends_with(assets[i].source, "/")
           THEN expand_directory_asset(assets[i], tree, st)
           ELSE expand_file_asset(assets[i], st))

\* Ok((final_assets, sorted_dirs)) or Err(err).
expand_assets(assets, tree) ==
  LET st == expand_loop(assets, tree, 1,
              [final_assets |-> <<>>, destination_map |-> {},
               unique_dirs |-> {}, err |-> None])
  IN IF IsSome(st.err)
       THEN [ok |-> FALSE, final_assets |-> <<>>, dirs |-> <<>>, err |-> st.err]
       ELSE [ok |-> TRUE, final_assets |-> st.final_assets,
             dirs |-> sort(st.unique_dirs), err |-> None]

-----------------------------------------------------------------------------
(* Inputs of expand_assets: declared assets and project trees.             *)

Asset(source, dest, mode, mkdir) ==
  [source |-> source, dest |-> dest, mode |-> mode, mkdir |-> mkdir]

\* Sources: the files "x" and "y", the directories "c/" and "d/".
src_x == <<"x">>
src_y == <<"y">>
src_c == <<"c", "/">>
src_d == <<"d", "/">>

\* Destinations.
dest_a_f  == <<"/", "a", "/", "f">>
dest_a__f == <<"/", "a", "/", "/", "f">>
dest_a    == <<"/", "a">>
dest_e    == <<"/", "e">>
dest_e_n  == <<"/", "e", "/", "n">>
dest_e_n_b == <<"/", "e", "/", "n", "/", "b">>
dest_e_k  == <<"/", "e", "/", "k">>
dest_g    == <<"/", "g">>

mode_644 == <<"6", "4", "4">>
mode_755 == <<"7", "5", "5">>

AssetPool ==
  { Asset(src_x, dest_a_f, Some(mode_644), TRUE),
    Asset(src_y, dest_a_f, None, FALSE),
    Asset(src_y, dest_a__f, None, TRUE),
    Asset(src_c, dest_e, Some(mode_755), TRUE),
    Asset(src_c, dest_e, None, FALSE),
    Asset(src_c, dest_a, None, TRUE),
    Asset(src_x, dest_g, None, TRUE),
    Asset(src_d, dest_e_n, None, TRUE),
    Asset(src_y, dest_e_n_b, None, FALSE),
    Asset(src_x, dest_e_k, Some(mode_644), FALSE) }

File(name) == [name |-> name, is_dir |-> FALSE]
Dir(name) == [name |-> name, is_dir |-> TRUE]

\* x, y, c/{f, n/{b}}, d/ (empty); c/ listed in either order; or c absent
\* and d a regular file.
TreeFirstFile ==
  ( <<>> :> <<File(<<"x">>), File(<<"y">>), Dir(<<"c">>), Dir(<<"d">>)>> )
  @@ ( << <<"c">> >> :> <<File(<<"f">>), Dir(<<"n">>)>> )
  @@ ( << <<"c">>, <<"n">> >> :> <<File(<<"b">>)>> )
  @@ ( << <<"d">> >> :> <<>> )

TreeFirstDir ==
  ( <<>> :> <<Dir(<<"d">>), Dir(<<"c">>), File(<<"y">>), File(<<"x">>)>> )
  @@ ( << <<"c">> >> :> <<Dir(<<"n">>), File(<<"f">>)>> )
  @@ ( << <<"c">>, <<"n">> >> :> <<File(<<"b">>)>> )
  @@ ( << <<"d">> >> :> <<>> )

TreeNoDirs ==
  ( <<>> :> <<File(<<"x">>), File(<<"y">>), File(<<"d">>)>> )

ProjectTrees == {TreeFirstFile, TreeFirstDir, TreeNoDirs}

\* The longest declared asset list the check enumerates.
MaxAssets == 3

RECURSIVE SeqsUpTo(_, _)
SeqsUpTo(S, n) ==
  IF n = 0 THEN {<<>>}
  ELSE LET shorter == SeqsUpTo(S, n - 1)
       IN shorter \cup {Append(q, x) : q \in {r \in shorter : Len(r) = n - 1}, x \in S}

-----------------------------------------------------------------------------
(* The values of the variables a specification does not use.               *)

RunIdle ==
  /\ pc = "Idle"
  /\ flags = [dry_run |-> FALSE, no_archive |-> FALSE, verify |-> FALSE]
  /\ config = None
  /\ world = None
  /\ disk = None
  /\ spawned = <<>>
  /\ steps = <<>>
  /\ error = None
  /\ run_state = None

ExpandIdle ==
  /\ initial_assets = <<>>
  /\ project_tree = TreeNoDirs
  /\ expanded = None

VerifyIdle ==
  /\ verify_in = None
  /\ verify_out = None

StreamIdle == stream = None

run_vars == <<pc, flags, config, world, disk, spawned, steps, error, run_state>>
expand_vars == <<initial_assets, project_tree, expanded>>
verify_vars == <<verify_in, verify_out>>
stream_vars == <<stream>>

-----------------------------------------------------------------------------
(* expand_assets applied to every declared list over every tree.           *)

InitExpand ==
  /\ RunIdle
  /\ VerifyIdle
  /\ StreamIdle
  /\ initial_assets \in SeqsUpTo(AssetPool, MaxAssets)
  /\ project_tree \in ProjectTrees
  /\ expanded = None

Expand ==
  /\ expanded = None
  /\ expanded' = Some(expand_assets(initial_assets, project_tree))
  /\ UNCHANGED <<initial_assets, project_tree, run_vars, verify_vars, stream_vars>>

NextExpand == Expand

SpecExpand == InitExpand /\ [][NextExpand]_vars

-----------------------------------------------------------------------------
(* What the claims about expand_assets speak of, stated over the tree as a *)
(* set and not through the walk.                                           *)

FilesOf(tree) ==
  UNION { {Append(d, tree[d][i].name) : i \in {j \in DOMAIN tree[d] : ~tree[d][j].is_dir}}
          : d \in DOMAIN tree }

IsUnder(path, dir) ==
  Len(path) >= Len(dir) /\ SubSeq(path, 1, Len(dir)) = dir

RelativeTo(path, dir) == PathString(SubSeq(path, Len(dir) + 1, Len(path)))

IsDirectoryAsset(asset) == ends_with(asset.source, "/")

HasInvalidSource(asset, tree) ==
  IsDirectoryAsset(asset) /\ Components(asset.source) \notin DOMAIN tree

\* The destinations of the files one declared asset resolves to.
ResolvedDests(asset, tree) ==
  IF ~IsDirectoryAsset(asset) THEN {asset.dest}
  ELSE IF HasInvalidSource(asset, tree) THEN {}
  ELSE { PathJoin(asset.dest, RelativeTo(f, Components(asset.source)))
         : f \in {g \in FilesOf(tree) : IsUnder(g, Components(asset.source))} }

\* Declarations i and j resolve a file to the destination dest.
CollideAt(i, j, dest) ==
  /\ \E d \in ResolvedDests(initial_assets[i], project_tree) : PathEq(d, dest)
  /\ \E d \in ResolvedDests(initial_assets[j], project_tree) : PathEq(d, dest)

Collide(i, j) ==
  \E d \in ResolvedDests(initial_assets[i], project_tree) : CollideAt(i, j, d)

\* Every declaration up to the j-th was resolved: none has an invalid source.
ResolvedUpTo(j) ==
  \A k \in 1..j : ~HasInvalidSource(initial_assets[k], project_tree)

\* C4: two resolved file assets with the same destination make expand fail
\* with a duplicate-destination error naming the declared sources of two
\* declarations that collide at the reported destination; so the destinations
\* of a manifest that expand returns are pairwise distinct.
C4_DuplicateDestinationRejected ==
  IsSome(expanded) =>
    LET r == Unwrap(expanded)
        n == Len(initial_assets)
    IN /\ r.ok =>
            \A a, b \in 1..Len(r.final_assets) :
              a # b => ~PathEq(r.final_assets[a].dest, r.final_assets[b].dest)
       /\ \A i, j \in 1..n :
            (i < j /\ ResolvedUpTo(j) /\ Collide(i, j)) =>
              /\ ~r.ok
              /\ Unwrap(r.err).kind = "DuplicateDestination"
              /\ \E a, b \in 1..n :
                   /\ a < b
                   /\ CollideAt(a, b, Unwrap(r.err).dest)
                   /\ Unwrap(r.err).first = initial_assets[a].source
                   /\ Unwrap(r.err).second = initial_assets[b].source

\* A file asset and a file of an expanded directory collide; the error names
\* the two different declared sources.
C4_Witness ==
  /\ IsSome(expanded)
  /\ ~Unwrap(expanded).ok
  /\ Unwrap(Unwrap(expanded).err).kind = "DuplicateDestination"
  /\ Unwrap(Unwrap(expanded).err).first = src_x
  /\ Unwrap(Unwrap(expanded).err).second = src_c

\* The directories one declared asset implies: its destination root and the
\* mapped subdirectories (directory asset), or the parent of its destination
\* (file asset).
ImpliedDirs(asset, tree) ==
  IF ~IsDirectoryAsset(asset)
    THEN (IF IsSome(PathParent(asset.dest)) THEN {Unwrap(PathParent(asset.dest))} ELSE {})
  ELSE IF HasInvalidSource(asset, tree) THEN {}
  ELSE {asset.dest} \cup
       { PathJoin(asset.dest, RelativeTo(d, Components(asset.source)))
         : d \in {g \in DOMAIN tree : IsUnder(g, Components(asset.source))} }

\* C5: every path of the directory set is implied by a declaration with
\* mkdir = true (a declaration with mkdir = false contributes none), and the
\* files of a declaration with mkdir = false are all in the manifest.
C5_MkdirFalseContributesNoDirectory ==
  (IsSome(expanded) /\ Unwrap(expanded).ok) =>
    LET r == Unwrap(expanded)
        n == Len(initial_assets)
    IN /\ \A k \in 1..Len(r.dirs) :
            \E i \in 1..n :
              /\ initial_assets[i].mkdir
              /\ \E d \in ImpliedDirs(initial_assets[i], project_tree) :
                   PathEq(d, r.dirs[k])
       /\ \A i \in 1..n :
            ~initial_assets[i].mkdir =>
              \A d \in ResolvedDests(initial_assets[i], project_tree) :
                \E k \in 1..Len(r.final_assets) :
                  /\ r.final_assets[k].dest = d
                  /\ ~r.final_assets[k].mkdir

\* A directory asset with mkdir = false alone: its files are in the manifest
\* and the directory set is empty although the walk met directories.
C5_Witness ==
  /\ IsSome(expanded)
  /\ Unwrap(expanded).ok
  /\ Len(initial_assets) = 1
  /\ initial_assets[1] = Asset(src_c, dest_e, None, FALSE)
  /\ Len(Unwrap(expanded).final_assets) = 2
  /\ Unwrap(expanded).dirs = <<>>

-----------------------------------------------------------------------------
(* verify_package (build.rs 564-676)                                       *)

\* 2^16: the declared mode is parsed into a u16.
U16Range == 65536

\* 0o7777 + 1: the recorded mode is masked to its low 12 bits.
PermissionMask == 4096

OctalDigit(c) ==
  CASE c = "0" -> 0 [] c = "1" -> 1 [] c = "2" -> 2 [] c = "3" -> 3
    [] c = "4" -> 4 [] c = "5" -> 5 [] c = "6" -> 6 [] c = "7" -> 7
    [] OTHER -> -1

RECURSIVE OctalValue(_, _)
OctalValue(digits, acc) ==
  IF digits = <<>> THEN acc
  ELSE IF OctalDigit(digits[1]) < 0 \/ acc < 0 THEN -1
  ELSE IF acc * 8 + OctalDigit(digits[1]) >= U16Range THEN -1
  ELSE OctalValue(Tail(digits), acc * 8 + OctalDigit(digits[1]))

\* u16::from_str_radix(s, 8): Some(value), or None for an empty string, a
\* character that is no octal digit, or a value that does not fit 16 bits.
\* One leading '+' is accepted.
from_str_radix_8(s) ==
  LET digits == IF s # <<>> /\ s[1] = "+" THEN Tail(s) ELSE s
      value == OctalValue(digits, 0)
  IN IF digits = <<>> \/ value < 0 THEN None ELSE Some(value)

\* actual_files_with_meta.get(&expected_path): the entries are collected into
\* a HashMap keyed by path, so of two entries with equal paths the later
\* one stays.
files_get(file_entries, expected_path) ==
  LET hits == {i \in DOMAIN file_entries : PathEq(file_entries[i].path, expected_path)}
  IN IF hits = {} THEN None
     ELSE Some(file_entries[CHOOSE i \in hits : \A j \in hits : j <= i])

\* The checks of one declared asset with the recorded mode left unmasked.
verify_asset_unmasked(file_entries, asset, acc) ==
  LET file_entry == files_get(file_entries, asset.dest)
      expected_mode == from_str_radix_8(Unwrap(asset.mode))
      actual_permission_bits == Unwrap(file_entry).mode
  IN IF ~IsSome(file_entry) THEN [acc EXCEPT !.issues = @ + 1]
     ELSE IF ~IsSome(asset.mode) THEN acc
     ELSE IF ~IsSome(expected_mode) THEN [acc EXCEPT !.err = "InvalidOctalMode"]
     ELSE IF actual_permission_bits # Unwrap(expected_mode)
       THEN [acc EXCEPT !.issues = @ + 1]
       ELSE acc

\* The checks of one declared asset: [issues, err].
verify_asset(file_entries, asset, acc) ==
  LET file_entry == files_get(file_entries, asset.dest)
      expected_mode == from_str_radix_8(Unwrap(asset.mode))
      actual_permission_bits == Unwrap(file_entry).mode % PermissionMask
  IN IF ~IsSome(file_entry) THEN [acc EXCEPT !.issues = @ + 1]
     ELSE IF ~IsSome(asset.mode) THEN acc
     ELSE IF ~IsSome(expected_mode) THEN [acc EXCEPT !.err = "InvalidOctalMode"]
     ELSE IF actual_permission_bits # Unwrap(expected_mode)
       THEN [acc EXCEPT !.issues = @ + 1]
       ELSE acc

\* The loop over the declared assets leaving at the first issue found.
RECURSIVE verify_assets_until_first_issue(_, _, _, _)
verify_assets_until_first_issue(file_entries, expected_assets, i, acc) ==
  IF i > Len(expected_assets) \/ acc.err # "none" \/ acc.issues > 0 THEN acc
  ELSE verify_assets_until_first_issue(file_entries, expected_assets, i + 1,
         verify_asset(file_entries, expected_assets[i], acc))

RECURSIVE verify_assets(_, _, _, _)
verify_assets(file_entries, expected_assets, i, acc) ==
  IF i > Len(expected_assets) \/ acc.err # "none" THEN acc
  ELSE verify_assets(file_entries, expected_assets, i + 1,
         verify_asset(file_entries, expected_assets[i], acc))

Count(mismatch) == IF mismatch THEN 1 ELSE 0

unwrap_or(o, default) == IF IsSome(o) THEN Unwrap(o) ELSE default

\* rpm is None when the package cannot be opened; its name and version are
\* None when the tag cannot be read.
verify_package(rpm, cargo_package, cfg) ==
  IF ~IsSome(rpm) THEN [ok |-> FALSE, issues |-> 0, err |-> "OpenFailed"]
  ELSE
    LET metadata == Unwrap(rpm)
        after_name == Count(Unwrap(metadata.name) # cargo_package.name)
        after_version ==
          after_name + Count(Unwrap(metadata.version) # cargo_package.version)
        after_license ==
          after_version +
          Count(IsSome(cfg.verify_license)
                /\ unwrap_or(metadata.license, "N/A") # Unwrap(cfg.verify_license))
        after_summary ==
          after_license +
          Count(IsSome(cfg.verify_summary)
                /\ unwrap_or(metadata.summary, "N/A") # Unwrap(cfg.verify_summary))
        after_files ==
          IF IsSome(cfg.assets)
            THEN verify_assets(metadata.files, Unwrap(cfg.assets), 1,
                               [issues |-> after_summary, err |-> "none"])
            ELSE [issues |-> after_summary, err |-> "none"]
    IN IF ~IsSome(metadata.name) \/ ~IsSome(metadata.version)
         THEN [ok |-> FALSE, issues |-> 0, err |-> "MetadataUnreadable"]
       ELSE IF after_files.err # "none"
         THEN [ok |-> FALSE, issues |-> after_files.issues, err |-> after_files.err]
       ELSE IF after_files.issues > 0
         THEN [ok |-> FALSE, issues |-> after_files.issues, err |-> "IssuesFound"]
         ELSE [ok |-> TRUE, issues |-> 0, err |-> "none"]

-----------------------------------------------------------------------------
(* Inputs of verify_package: the package that was built, the declared      *)
(* identity and the declared configuration.                                *)

name_p == <<"p">>
name_q == <<"q">>
version_1 == <<"1">>
version_2 == <<"2">>

mode_0755 == <<"0", "7", "5", "5">>
mode_rw == <<"r", "w">>

\* Raw file modes as the package records them: type bits and permissions.
S_IFREG_644 == 33188
S_IFREG_755 == 33261
S_IFREG_600 == 33152
S_IFDIR_755 == 16877

FileEntry(path, mode) == [path |-> path, mode |-> mode]

RecordedFiles ==
  { << FileEntry(dest_a_f, S_IFREG_644), FileEntry(dest_e_n_b, S_IFREG_755),
       FileEntry(dest_g, S_IFREG_644), FileEntry(dest_e, S_IFDIR_755) >>,
    << FileEntry(dest_a_f, S_IFREG_600), FileEntry(dest_g, S_IFREG_755) >> }

\* A file that cannot be opened, a package whose name tag cannot be read, and
\* the readable packages.
RpmPackages ==
  {None} \cup
  { Some([name |-> None, version |-> Some(version_1), license |-> None,
          summary |-> None, files |-> <<>>]) } \cup
  { Some([name |-> Some(n), version |-> Some(v), license |-> l, summary |-> sm,
          files |-> f])
    : n \in {name_p, name_q},
      v \in {version_1, version_2},
      l \in {None, Some("MIT")},
      sm \in {None, Some("tool")},
      f \in RecordedFiles }

VerifyAssetPool ==
  { Asset(src_x, dest_a_f, Some(mode_644), TRUE),
    Asset(src_y, dest_e_n_b, Some(mode_0755), TRUE),
    Asset(src_x, dest_g, None, TRUE),
    Asset(src_c, dest_e, Some(mode_rw), TRUE),
    Asset(src_y, dest_e_k, Some(mode_644), FALSE) }

\* The longest manifest the check verifies against.
MaxVerifyAssets == 2

\* The low bits of a declared mode that the check flips, one at a time.
PermissionBits == 12

DistinctDests(assets) ==
  \A i, j \in DOMAIN assets : i # j => ~PathEq(assets[i].dest, assets[j].dest)

RevolveConfig(spec_template, output_dir, changelog, build_flags, build_command, assets, verify_license, verify_summary) ==
  [spec_template |-> spec_template, output_dir |-> output_dir,
   changelog |-> changelog, build_flags |-> build_flags,
   build_command |-> build_command, assets |-> assets,
   verify_license |-> verify_license, verify_summary |-> verify_summary]

spec_template_path == <<"t">>

VerifyConfigs ==
  { RevolveConfig(spec_template_path, None, None, None, None, a, l, sm)
    : a \in {None} \cup
            {Some(q) : q \in {r \in SeqsUpTo(VerifyAssetPool, MaxVerifyAssets)
                                : DistinctDests(r)}},
      l \in {None, Some("MIT"), Some("N/A")},
      sm \in {None, Some("tool")} }

\* What the package records of a declared manifest, stated over the manifest
\* as a whole and not through the loop of verify_package.
Readable(rpm) ==
  IsSome(rpm) /\ IsSome(Unwrap(rpm).name) /\ IsSome(Unwrap(rpm).version)

Recorded(rpm, dest) ==
  {i \in DOMAIN Unwrap(rpm).files : PathEq(Unwrap(rpm).files[i].path, dest)}

RecordedBits(rpm, dest) ==
  Unwrap(rpm).files[CHOOSE i \in Recorded(rpm, dest) :
                      \A j \in Recorded(rpm, dest) : j <= i].mode % PermissionMask

DeclaredAssets(cfg) == IF IsSome(cfg.assets) THEN Unwrap(cfg.assets) ELSE <<>>

\* Every declared mode of a recorded destination is an octal number.
ModesParse(rpm, cfg) ==
  \A i \in DOMAIN DeclaredAssets(cfg) :
    LET a == DeclaredAssets(cfg)[i]
    IN (Recorded(rpm, a.dest) # {} /\ IsSome(a.mode)) =>
         IsSome(from_str_radix_8(Unwrap(a.mode)))

MetadataMismatches(rpm, pkg, cfg) ==
  Cardinality(
    {c \in {"name", "version", "license", "summary"} :
       \/ c = "name" /\ Unwrap(Unwrap(rpm).name) # pkg.name
       \/ c = "version" /\ Unwrap(Unwrap(rpm).version) # pkg.version
       \/ c = "license" /\ IsSome(cfg.verify_license)
            /\ Unwrap(cfg.verify_license) #
                 (IF IsSome(Unwrap(rpm).license) THEN Unwrap(Unwrap(rpm).license) ELSE "N/A")
       \/ c = "summary" /\ IsSome(cfg.verify_summary)
            /\ Unwrap(cfg.verify_summary) #
                 (IF IsSome(Unwrap(rpm).summary) THEN Unwrap(Unwrap(rpm).summary) ELSE "N/A")})

MissingDestinations(rpm, cfg) ==
  {i \in DOMAIN DeclaredAssets(cfg) : Recorded(rpm, DeclaredAssets(cfg)[i].dest) = {}}

ModeMismatches(rpm, cfg) ==
  {i \in DOMAIN DeclaredAssets(cfg) :
     LET a == DeclaredAssets(cfg)[i]
     IN /\ Recorded(rpm, a.dest) # {}
        /\ IsSome(a.mode)
        /\ from_str_radix_8(Unwrap(a.mode)) # Some(RecordedBits(rpm, a.dest))}

Mismatches(rpm, pkg, cfg) ==
  MetadataMismatches(rpm, pkg, cfg)
  + Cardinality(MissingDestinations(rpm, cfg))
  + Cardinality(ModeMismatches(rpm, cfg))

\* The package records every declared destination with the declared mode.
ManifestRecorded(rpm, cfg) ==
  /\ MissingDestinations(rpm, cfg) = {}
  /\ ModeMismatches(rpm, cfg) = {}
  /\ ModesParse(rpm, cfg)

Pow2(k) == 2 ^ k

\* n with bit k flipped.
FlipBit(n, k) ==
  IF (n \div Pow2(k)) % 2 = 1 THEN n - Pow2(k) ELSE n + Pow2(k)

RECURSIVE ToOctal(_)
ToOctal(n) ==
  LET digit == <<"0", "1", "2", "3", "4", "5", "6", "7">>[(n % 8) + 1]
  IN IF n < 8 THEN <<digit>> ELSE Append(ToOctal(n \div 8), digit)

\* The manifest with bit k of the declared mode of its i-th asset flipped.
WithFlippedBit(assets, i, k) ==
  [assets EXCEPT ![i].mode =
     Some(ToOctal(FlipBit(Unwrap(from_str_radix_8(Unwrap(@))), k)))]

\* The places where one declared permission bit can be flipped, for a
\* manifest the package records.
Flips(rpm, cfg) ==
  IF ~IsSome(cfg.assets) \/ ~Readable(rpm) THEN {}
  ELSE IF ~ManifestRecorded(rpm, cfg) THEN {}
  ELSE { f \in [i : DOMAIN Unwrap(cfg.assets), k : 0..(PermissionBits - 1)] :
           /\ IsSome(Unwrap(cfg.assets)[f.i].mode)
           /\ IsSome(from_str_radix_8(Unwrap(Unwrap(cfg.assets)[f.i].mode))) }

cargo_package == [name |-> name_p, version |-> version_1]

-----------------------------------------------------------------------------
(* verify_package applied to every package and configuration: against the  *)
(* manifest as declared, or with one declared permission bit flipped.      *)

InitVerify ==
  /\ RunIdle
  /\ ExpandIdle
  /\ StreamIdle
  /\ \E rpm \in RpmPackages, cfg \in VerifyConfigs :
       \E flip \in {None} \cup {Some(f) : f \in Flips(rpm, cfg)} :
         verify_in = Some([rpm |-> rpm, package |-> cargo_package,
                           built_from |-> cfg, flip |-> flip,
                           config |-> IF IsSome(flip)
                                        THEN [cfg EXCEPT !.assets = Some(WithFlippedBit(
                                                Unwrap(@), Unwrap(flip).i, Unwrap(flip).k))]
                                        ELSE cfg])
  /\ verify_out = None

VerifyPackage ==
  /\ IsSome(verify_in)
  /\ verify_out = None
  /\ verify_out' = Some(verify_package(Unwrap(verify_in).rpm,
                                       Unwrap(verify_in).package,
                                       Unwrap(verify_in).config))
  /\ UNCHANGED <<verify_in, run_vars, expand_vars, stream_vars>>

NextVerify == VerifyPackage

SpecVerify == InitVerify /\ [][NextVerify]_vars

-----------------------------------------------------------------------------
(* What the claims about verify_package speak of, stated as counts over    *)
(* the declared manifest and not through the loop.                         *)

\* C8: verify_package evaluates every check whatever mismatches it meets (for
\* a package whose metadata can be read and declared modes that are octal
\* numbers): it succeeds exactly when there is no mismatch, and otherwise fails
\* with the number of all mismatches: name, version, configured license,
\* configured summary, missing destinations and permission modes.
C8_VerifyCountsEveryMismatch ==
  (IsSome(verify_out) /\ Readable(Unwrap(verify_in).rpm)
     /\ ModesParse(Unwrap(verify_in).rpm, Unwrap(verify_in).config)) =>
    LET v == Unwrap(verify_in)
        out == Unwrap(verify_out)
        total == Mismatches(v.rpm, v.package, v.config)
    IN /\ out.ok <=> total = 0
       /\ ~out.ok => (out.err = "IssuesFound" /\ out.issues = total)

\* Mismatches of every kind at once: name, version, license, summary, a missing
\* destination and a mode, all counted in one failure.
C8_Witness ==
  /\ IsSome(verify_out)
  /\ Readable(Unwrap(verify_in).rpm)
  /\ ModesParse(Unwrap(verify_in).rpm, Unwrap(verify_in).config)
  /\ MetadataMismatches(Unwrap(verify_in).rpm, Unwrap(verify_in).package,
                        Unwrap(verify_in).config) = 4
  /\ MissingDestinations(Unwrap(verify_in).rpm, Unwrap(verify_in).config) # {}
  /\ ModeMismatches(Unwrap(verify_in).rpm, Unwrap(verify_in).config) # {}
  /\ Unwrap(verify_out).err = "IssuesFound"
  /\ Unwrap(verify_out).issues = 6

\* C9: against the manifest the package records (every declared destination
\* present, every declared mode equal to the recorded bits masked to 12 bits)
\* the file checks report nothing, so verify succeeds when the metadata checks
\* pass; with one permission bit of one declared mode flipped they report
\* exactly one mismatch more.
C9_RoundTripAndSingleBitFlip ==
  (IsSome(verify_out) /\ Readable(Unwrap(verify_in).rpm)
     /\ ManifestRecorded(Unwrap(verify_in).rpm, Unwrap(verify_in).built_from)) =>
    LET v == Unwrap(verify_in)
        out == Unwrap(verify_out)
        metadata == MetadataMismatches(v.rpm, v.package, v.built_from)
    IN /\ (~IsSome(v.flip) /\ metadata = 0) => out.ok
       /\ (~IsSome(v.flip) /\ metadata > 0) =>
            (~out.ok /\ out.err = "IssuesFound" /\ out.issues = metadata)
       /\ IsSome(v.flip) =>
            (~out.ok /\ out.err = "IssuesFound" /\ out.issues = metadata + 1)

\* A package that records a two-asset manifest and matching metadata, verified
\* with one bit of one declared mode flipped: exactly one mismatch.
C9_Witness ==
  /\ IsSome(verify_out)
  /\ Readable(Unwrap(verify_in).rpm)
  /\ ManifestRecorded(Unwrap(verify_in).rpm, Unwrap(verify_in).built_from)
  /\ Len(DeclaredAssets(Unwrap(verify_in).built_from)) = 2
  /\ IsSome(Unwrap(verify_in).flip)
  /\ MetadataMismatches(Unwrap(verify_in).rpm, Unwrap(verify_in).package,
                        Unwrap(verify_in).built_from) = 0
  /\ ~Unwrap(verify_out).ok
  /\ Unwrap(verify_out).issues = 1

-----------------------------------------------------------------------------
(* Process steps: stream_command, execute_build_process, execute_rpmbuild  *)

\* How a spawned command ends: it cannot be started, or it exits with a status.
SpawnFailed == -1
Outcomes == {SpawnFailed, 0, 1}

\* shlex::split for words, spaces and single quotes: None when a quote is left
\* open, the empty sequence for a blank string.
RECURSIVE shlex_scan(_, _, _, _, _)
shlex_scan(s, i, word, in_word, quoted) ==
  IF i > Len(s)
    THEN IF quoted THEN None
         ELSE Some(IF in_word THEN <<word>> ELSE <<>>)
  ELSE IF s[i] = "'"
    THEN shlex_scan(s, i + 1, word, TRUE, ~quoted)
  ELSE IF s[i] = " " /\ ~quoted
    THEN LET rest == shlex_scan(s, i + 1, <<>>, FALSE, FALSE)
         IN IF ~IsSome(rest) THEN None
            ELSE Some((IF in_word THEN <<word>> ELSE <<>>) \o Unwrap(rest))
  ELSE shlex_scan(s, i + 1, Append(word, s[i]), TRUE, quoted)

shlex_split(command_str) == shlex_scan(command_str, 1, <<>>, FALSE, FALSE)

Single(cmd) == [tag |-> "Single", cmds |-> <<cmd>>]
Sequence(cmds) == [tag |-> "Sequence", cmds |-> cmds]

\* One invocation through stream_command: what was started and how it ended.
Process(kind, index, program, args, status) ==
  [kind |-> kind, index |-> index, program |-> program, args |-> args,
   status |-> status]

ProcessError(kind, command_str, status) ==
  [kind |-> kind, command |-> command_str, status |-> status]

\* A loop that notes a nonzero exit and goes on to the next command.
RECURSIVE run_commands_past_failure(_, _, _, _)
run_commands_past_failure(commands, i, outcomes, procs) ==
  IF i > Len(commands) THEN [procs |-> procs, err |-> None]
  ELSE
    LET command_str == commands[i]
        parts == shlex_split(command_str)
        started == Append(procs, Process("custom", i, Unwrap(parts)[1],
                                         Tail(Unwrap(parts)), outcomes[i]))
        rest == run_commands_past_failure(commands, i + 1, outcomes, started)
    IN IF ~IsSome(parts)
         THEN [procs |-> procs,
               err |-> Some(ProcessError("CommandParseFailed", command_str, 0))]
       ELSE IF Unwrap(parts) = <<>>
         THEN run_commands_past_failure(commands, i + 1, outcomes, procs)
       ELSE IF outcomes[i] \notin {0, SpawnFailed}
         THEN [procs |-> rest.procs,
               err |-> Some(ProcessError("CustomBuildFailed", command_str, outcomes[i]))]
       ELSE rest

\* The loop over the custom commands (build.rs 392-417): [procs, err].
RECURSIVE run_commands(_, _, _, _)
run_commands(commands, i, outcomes, procs) ==
  IF i > Len(commands) THEN [procs |-> procs, err |-> None]
  ELSE
    LET command_str == commands[i]
        parts == shlex_split(command_str)
        started == Append(procs, Process("custom", i, Unwrap(parts)[1],
                                         Tail(Unwrap(parts)), outcomes[i]))
    IN IF ~IsSome(parts)
         THEN [procs |-> procs,
               err |-> Some(ProcessError("CommandParseFailed", command_str, 0))]
       ELSE IF Unwrap(parts) = <<>>
         THEN run_commands(commands, i + 1, outcomes, procs)
       ELSE IF outcomes[i] = SpawnFailed
         THEN [procs |-> started,
               err |-> Some(ProcessError("SpawnFailed", command_str, SpawnFailed))]
       ELSE IF outcomes[i] # 0
         THEN [procs |-> started,
               err |-> Some(ProcessError("CustomBuildFailed", command_str, outcomes[i]))]
       ELSE run_commands(commands, i + 1, outcomes, started)

cargo == <<"c", "a", "r", "g", "o">>
arg_build == <<"b", "u", "i", "l", "d">>
arg_target_dir == <<"-", "-", "t", "a", "r", "g", "e", "t", "-", "d", "i", "r">>
arg_release == <<"-", "-", "r", "e", "l", "e", "a", "s", "e">>
arg_debug == <<"-", "-", "d", "e", "b", "u", "g">>
target_dir == <<"t", "a", "r", "g", "e", "t">>

\* Arguments that end with --release whatever flags are configured.
cargo_args_always_release(cfg) ==
  <<arg_build, arg_target_dir, target_dir>>
  \o (IF IsSome(cfg.build_flags) THEN Unwrap(cfg.build_flags) ELSE <<>>)
  \o <<arg_release>>

\* The arguments of the default `cargo build`.
cargo_args(cfg) ==
  <<arg_build, arg_target_dir, target_dir>>
  \o (IF IsSome(cfg.build_flags) THEN Unwrap(cfg.build_flags) ELSE <<>>)
  \o (IF ~IsSome(cfg.build_flags) THEN <<arg_release>> ELSE <<>>)

\* A build process that runs the custom commands in a dry run as well.
execute_build_process_in_every_run(cfg, dry_run, outcomes) ==
  IF IsSome(cfg.build_command)
    THEN run_commands(Unwrap(cfg.build_command).cmds, 1, outcomes, <<>>)
    ELSE LET proc == Process("cargo", 1, cargo, cargo_args(cfg), outcomes[1])
         IN IF outcomes[1] = SpawnFailed
              THEN [procs |-> <<proc>>,
                    err |-> Some(ProcessError("SpawnFailed", cargo, SpawnFailed))]
            ELSE IF outcomes[1] # 0
              THEN [procs |-> <<proc>>,
                    err |-> Some(ProcessError("CargoBuildFailed", cargo, outcomes[1]))]
            ELSE [procs |-> <<proc>>, err |-> None]

\* execute_build_process: the invocations made and the error, if any.
execute_build_process(cfg, dry_run, outcomes) ==
  IF IsSome(cfg.build_command)
    THEN IF dry_run THEN [procs |-> <<>>, err |-> None]
         ELSE run_commands(Unwrap(cfg.build_command).cmds, 1, outcomes, <<>>)
    ELSE LET proc == Process("cargo", 1, cargo, cargo_args(cfg), outcomes[1])
         IN IF outcomes[1] = SpawnFailed
              THEN [procs |-> <<proc>>,
                    err |-> Some(ProcessError("SpawnFailed", cargo, SpawnFailed))]
            ELSE IF outcomes[1] # 0
              THEN [procs |-> <<proc>>,
                    err |-> Some(ProcessError("CargoBuildFailed", cargo, outcomes[1]))]
            ELSE [procs |-> <<proc>>, err |-> None]

\* A check that never looks for the tool.
check_environment_skipped(rpmbuild_on_path) == None

check_environment(rpmbuild_on_path) ==
  IF rpmbuild_on_path THEN None
  ELSE Some(ProcessError("ToolNotFound", <<"r", "p", "m", "b", "u", "i", "l", "d">>, 0))

-----------------------------------------------------------------------------
(* Files of a run. A file on disk is "stale" when it was there before the  *)
(* run started and "fresh" when this run wrote it.                         *)

RpmFile(arch, name) == [arch |-> arch, name |-> name]

rpm_main == <<"p", "-", "1", "-", "1", ".", "r", "p", "m">>
rpm_second == <<"p", "-", "1", "-", "2", ".", "r", "p", "m">>
rpm_debuginfo == <<"p", "-", "1", "-", "d", "e", "b", "u", "g", "i", "n", "f", "o", ".", "r", "p", "m">>
rpm_old == <<"p", "-", "0", "-", "1", ".", "r", "p", "m">>
build_log == <<"b", "u", "i", "l", "d", ".", "l", "o", "g">>

\* What the builder can leave under RPMS, and what an earlier run left there.
Producible == {RpmFile("x86_64", rpm_main), RpmFile("x86_64", rpm_second),
               RpmFile("x86_64", rpm_debuginfo), RpmFile("x86_64", build_log)}
LeftBehind == {RpmFile("x86_64", rpm_old), RpmFile("x86_64", rpm_main)}

\* Path::file_name and Path::extension of a file name.
file_name(path) == LET comps == Components(path) IN comps[Len(comps)]

extension(name) ==
  LET dots == {i \in 2..Len(name) : name[i] = "."}
  IN IF dots = {} THEN None
     ELSE Some(SubSeq(name, (CHOOSE i \in dots : \A j \in dots : j <= i) + 1, Len(name)))

contains(s, sub) ==
  \E i \in 1..(Len(s) - Len(sub) + 1) : SubSeq(s, i, i + Len(sub) - 1) = sub

ext_rpm == <<"r", "p", "m">>

\* The disk before the run: nothing there, or what an earlier run left.
CleanDisk ==
  [revolve |-> FALSE, build_dir |-> FALSE, spec_file |-> "absent",
   specs |-> "absent", sources |-> "absent", rpms |-> {},
   archive |-> "absent", build_output |-> FALSE,
   out_dir |-> FALSE, out |-> {}]

UsedDisk ==
  [revolve |-> TRUE, build_dir |-> TRUE, spec_file |-> "stale",
   specs |-> "stale", sources |-> "stale",
   rpms |-> {[file |-> f, origin |-> "stale"] : f \in LeftBehind},
   archive |-> "stale", build_output |-> TRUE,
   out_dir |-> TRUE, out |-> {[name |-> rpm_main, origin |-> "stale"]}]

\* A removal that clears build/ and leaves rpmbuild/ in place.
remove_build_dir_only(d) ==
  [d EXCEPT !.build_dir = FALSE, !.spec_file = "absent"]

\* A removal of target/ as a whole: the archive goes with the working state.
remove_target_dir(d) ==
  [d EXCEPT !.revolve = FALSE, !.build_dir = FALSE, !.spec_file = "absent",
            !.specs = "absent", !.sources = "absent", !.rpms = {},
            !.archive = "absent"]

\* fs::remove_dir_all(target/revolve): build/, rpmbuild/ and all under them.
remove_dir_all(d) ==
  [d EXCEPT !.revolve = FALSE, !.build_dir = FALSE, !.spec_file = "absent",
            !.specs = "absent", !.sources = "absent", !.rpms = {}]

\* fs::create_dir_all(target/revolve/build).
create_build_dir(d) == [d EXCEPT !.revolve = TRUE, !.build_dir = TRUE]

\* Writing or copying a file over what is there.
put_rpm(rpms, f) ==
  {r \in rpms : r.file # f} \cup {[file |-> f, origin |-> "fresh"]}

put_out(out, name, origin) ==
  {r \in out : r.name # name} \cup {[name |-> name, origin |-> origin]}

RECURSIVE put_rpms(_, _)
put_rpms(rpms, files) ==
  IF files = {} THEN rpms
  ELSE LET f == CHOOSE x \in files : TRUE
       IN put_rpms(put_rpm(rpms, f), files \ {f})

-----------------------------------------------------------------------------
(* create_artifact_archive (build.rs 268-311)                              *)

target_prefix == <<"t", "a", "r", "g", "e", "t", "/">>

\* The location an asset source resolves to: a build output under
\* target_dir, anything else under the project directory.
source_path(source) ==
  IF starts_with(source, target_prefix)
    THEN [root |-> "target_dir",
          rel |-> SubSeq(source, Len(target_prefix) + 1, Len(source))]
    ELSE [root |-> "project_dir", rel |-> source]

\* A resolution that looks for every source under the project directory.
path_exists_in_project(path, tree, d) ==
  Components(path.rel) \in FilesOf(tree) \cup DOMAIN tree

\* source_path.exists().
path_exists(path, tree, d) ==
  IF path.root = "target_dir"
    THEN d.build_output
    ELSE Components(path.rel) \in FilesOf(tree) \cup DOMAIN tree

source_exists(source, tree, d) == path_exists(source_path(source), tree, d)

\* The directory every entry of the archive lies under.
archive_root_dir == cargo_package.name \o <<"-">> \o cargo_package.version

\* The name an asset is appended under: the root directory and the base
\* name of its source.
archive_dest_path(source) == PathJoin(archive_root_dir, file_name(source))

RECURSIVE append_assets(_, _, _, _, _)
append_assets(assets, i, tree, d, entries) ==
  IF i > Len(assets) THEN [entries |-> entries, err |-> None]
  ELSE IF ~source_exists(assets[i].source, tree, d)
    THEN [entries |-> entries,
          err |-> Some(ProcessError("MissingAsset", source_path(assets[i].source), 0))]
  ELSE append_assets(assets, i + 1, tree, d,
         Append(entries, [name |-> archive_dest_path(assets[i].source),
                          source |-> assets[i].source]))

\* [wrote, entries, err]: the archive path is the same in every case.
create_artifact_archive(cfg, tree, d, dry_run, create_ok) ==
  IF dry_run THEN [wrote |-> FALSE, entries |-> <<>>, err |-> None]
  ELSE IF ~create_ok
    THEN [wrote |-> FALSE, entries |-> <<>>,
          err |-> Some(ProcessError("IoError", <<>>, 0))]
  ELSE LET r == IF IsSome(cfg.assets)
                  THEN append_assets(Unwrap(cfg.assets), 1, tree, d, <<>>)
                  ELSE [entries |-> <<>>, err |-> None]
       IN [wrote |-> TRUE, entries |-> r.entries, err |-> r.err]

-----------------------------------------------------------------------------
(* render_spec (build.rs 189-266)                                          *)

\* The TemplateContext handed to the template engine; the rendered text is a
\* function of it.
TemplateContext(cfg, created_dirs, changelog_content) ==
  [pkg |-> cargo_package,
   spec_template |-> cfg.spec_template,
   archive_root_dir |-> cargo_package.name \o <<"-">> \o cargo_package.version,
   changelog |-> changelog_content,
   assets |-> cfg.assets,
   build_flags |-> cfg.build_flags,
   created_dirs |-> created_dirs]

\* A render that gives up when the configured changelog cannot be read.
render_spec_requiring_changelog(cfg, created_dirs, changelog_readable, template, write_ok) ==
  IF IsSome(cfg.changelog) /\ ~changelog_readable
    THEN [rendered |-> None, wrote |-> FALSE,
          err |-> Some(ProcessError("ChangelogUnreadable", Unwrap(cfg.changelog), 0))]
  ELSE IF template # "ok" \/ ~write_ok
    THEN [rendered |-> None, wrote |-> FALSE,
          err |-> Some(ProcessError("IoError", <<>>, 0))]
  ELSE [rendered |-> Some(TemplateContext(cfg, created_dirs, cfg.changelog)),
        wrote |-> TRUE, err |-> None]

\* template: "ok", "missing" or "render_error". [rendered, wrote, err].
render_spec(cfg, created_dirs, changelog_readable, template, write_ok) ==
  LET changelog_content ==
        IF IsSome(cfg.changelog) /\ changelog_readable
          THEN Some(Unwrap(cfg.changelog)) ELSE None
      context == TemplateContext(cfg, created_dirs, changelog_content)
  IN IF template = "missing"
       THEN [rendered |-> None, wrote |-> FALSE,
             err |-> Some(ProcessError("TemplateNotFound", cfg.spec_template, 0))]
     ELSE IF template = "render_error"
       THEN [rendered |-> None, wrote |-> FALSE,
             err |-> Some(ProcessError("TemplateRenderError", cfg.spec_template, 0))]
     ELSE IF ~write_ok
       THEN [rendered |-> None, wrote |-> FALSE,
             err |-> Some(ProcessError("IoError", <<>>, 0))]
     ELSE [rendered |-> Some(context), wrote |-> TRUE, err |-> None]

-----------------------------------------------------------------------------
(* execute_rpmbuild (build.rs 448-499)                                     *)

rpmbuild == <<"r", "p", "m", "b", "u", "i", "l", "d">>

\* An invocation that names the project root as source directory in both
\* branches.
rpmbuild_args_from_source_tree(archive_path) ==
  <<"--define=_topdir", "-bb", "SPECS/spec", "--define=_sourcedir">>

\* The arguments of the real invocation: -bb in both branches.
rpmbuild_args(archive_path) ==
  IF IsSome(archive_path)
    THEN <<"--define=_topdir", "-bb", "SPECS/spec">>
    ELSE <<"--define=_topdir", "-bb", "SPECS/spec", "--define=_sourcedir">>

\* The command line the dry run prints (build.rs 121-135).
dry_run_command(archive_path) ==
  IF IsSome(archive_path)
    THEN <<"rpmbuild", "-ta", Unwrap(archive_path), "--specfile", "build/spec",
           "--define=_topdir">>
    ELSE <<"rpmbuild", "-bb", "build/spec", "--define=_topdir",
           "--define=_sourcedir">>

\* fail_at: the filesystem call that fails ("none", "mkdir", "copy_spec",
\* "copy_archive"); produced: what the builder leaves under RPMS.
\* [disk, procs, err].
execute_rpmbuild(archive_path, d, fail_at, outcome, produced) ==
  LET io(kind) == Some(ProcessError(kind, <<>>, 0))
      with_dirs == [d EXCEPT !.revolve = TRUE]
      with_spec == [with_dirs EXCEPT !.specs = "fresh"]
      with_archive == IF IsSome(archive_path)
                        THEN [with_spec EXCEPT !.sources = "fresh"]
                        ELSE with_spec
      proc == Process("rpmbuild", 1, rpmbuild, rpmbuild_args(archive_path), outcome)
      built == [with_archive EXCEPT !.rpms = put_rpms(@, produced)]
  IN IF fail_at = "mkdir"
       THEN [disk |-> d, procs |-> <<>>, err |-> io("IoError")]
     ELSE IF fail_at = "copy_spec"
       THEN [disk |-> with_dirs, procs |-> <<>>, err |-> io("CopyFailed")]
     ELSE IF fail_at = "copy_archive" /\ IsSome(archive_path)
       THEN [disk |-> with_spec, procs |-> <<>>, err |-> io("CopyFailed")]
     ELSE IF outcome = SpawnFailed
       THEN [disk |-> with_archive, procs |-> <<proc>>,
             err |-> Some(ProcessError("SpawnFailed", rpmbuild, SpawnFailed))]
     ELSE IF outcome # 0
       THEN [disk |-> built, procs |-> <<proc>>,
             err |-> Some(ProcessError("RpmbuildFailed", rpmbuild, outcome))]
     ELSE [disk |-> built, procs |-> <<proc>>, err |-> None]

-----------------------------------------------------------------------------
(* collect_artifacts (build.rs 502-562)                                    *)

ArtifactPath(dir, name) == [dir |-> dir, name |-> name]

\* A walk that copies to the output directory and returns the originals.
RECURSIVE collect_walk_returning_originals(_, _, _, _, _, _)
collect_walk_returning_originals(order, i, to_output, fail_at, found_rpms, out) ==
  IF i > Len(order) THEN [found_rpms |-> found_rpms, out |-> out, err |-> None]
  ELSE IF i = fail_at
    THEN [found_rpms |-> found_rpms, out |-> out,
          err |-> Some(ProcessError("WalkFailed", <<>>, 0))]
  ELSE IF extension(order[i].file.name) # Some(ext_rpm)
    THEN collect_walk_returning_originals(order, i + 1, to_output, fail_at, found_rpms, out)
  ELSE collect_walk_returning_originals(order, i + 1, to_output, fail_at,
         Append(found_rpms, ArtifactPath(order[i].file.arch, order[i].file.name)),
         IF to_output THEN put_out(out, order[i].file.name, order[i].origin) ELSE out)

\* The loop over the walk of RPMS, in the order the filesystem lists it.
\* fail_at is the entry at which the walk or the copy fails, 0 for none.
RECURSIVE collect_walk(_, _, _, _, _, _)
collect_walk(order, i, to_output, fail_at, found_rpms, out) ==
  IF i > Len(order) THEN [found_rpms |-> found_rpms, out |-> out, err |-> None]
  ELSE IF i = fail_at /\ extension(order[i].file.name) # Some(ext_rpm)
    THEN [found_rpms |-> found_rpms, out |-> out,
          err |-> Some(ProcessError("WalkFailed", <<>>, 0))]
  ELSE IF extension(order[i].file.name) # Some(ext_rpm)
    THEN collect_walk(order, i + 1, to_output, fail_at, found_rpms, out)
  ELSE IF i = fail_at
    THEN [found_rpms |-> found_rpms, out |-> out,
          err |-> Some(ProcessError(IF to_output THEN "CopyFailed" ELSE "WalkFailed",
                                    order[i].file.name, 0))]
  ELSE IF to_output
    THEN collect_walk(order, i + 1, to_output, fail_at,
           Append(found_rpms, ArtifactPath("out", order[i].file.name)),
           put_out(out, order[i].file.name, order[i].origin))
  ELSE collect_walk(order, i + 1, to_output, fail_at,
         Append(found_rpms, ArtifactPath(order[i].file.arch, order[i].file.name)),
         out)

\* A collection that takes an empty list of packages for an error.
collect_artifacts_requiring_rpms(order, output_dir, d, mkdir_ok, fail_at) ==
  IF IsSome(output_dir) /\ ~mkdir_ok
    THEN [disk |-> d, found_rpms |-> <<>>,
          err |-> Some(ProcessError("IoError", Unwrap(output_dir), 0))]
  ELSE LET r == collect_walk(order, 1, IsSome(output_dir), fail_at, <<>>, d.out)
       IN [disk |-> [d EXCEPT !.out_dir = @ \/ IsSome(output_dir), !.out = r.out],
           found_rpms |-> IF IsSome(r.err) THEN <<>> ELSE r.found_rpms,
           err |-> IF ~IsSome(r.err) /\ r.found_rpms = <<>>
                     THEN Some(ProcessError("NoArtifacts", <<>>, 0)) ELSE r.err]

\* [disk, found_rpms, err].
collect_artifacts(order, output_dir, d, mkdir_ok, fail_at) ==
  IF IsSome(output_dir) /\ ~mkdir_ok
    THEN [disk |-> d, found_rpms |-> <<>>,
          err |-> Some(ProcessError("IoError", Unwrap(output_dir), 0))]
  ELSE LET r == collect_walk(order, 1, IsSome(output_dir), fail_at, <<>>, d.out)
       IN [disk |-> [d EXCEPT !.out_dir = @ \/ IsSome(output_dir), !.out = r.out],
           found_rpms |-> IF IsSome(r.err) THEN <<>> ELSE r.found_rpms,
           err |-> r.err]

\* The orders in which a walk can list a directory's entries.
WalkOrders(entries) ==
  {o \in [1..Cardinality(entries) -> entries] :
     \A i, j \in DOMAIN o : i # j => o[i] # o[j]}

-----------------------------------------------------------------------------
(* The choice of the package to verify (build.rs 155-163)                  *)

str_debuginfo == <<"d", "e", "b", "u", "g", "i", "n", "f", "o">>
str_debugsource == <<"d", "e", "b", "u", "g", "s", "o", "u", "r", "c", "e">>
str_src_rpm == <<".", "s", "r", "c", ".", "r", "p", "m">>

is_main_binary_rpm(filename, package) ==
  /\ starts_with(filename, package.name \o <<"-">> \o package.version)
  /\ ~contains(filename, str_debuginfo)
  /\ ~contains(filename, str_debugsource)
  /\ ~contains(filename, str_src_rpm)

\* artifacts.iter().find(..): the first match, or None.
main_binary_rpm(artifacts, package) ==
  LET hits == {i \in DOMAIN artifacts : is_main_binary_rpm(artifacts[i].name, package)}
  IN IF hits = {} THEN None
     ELSE Some(artifacts[CHOOSE i \in hits : \A j \in hits : i <= j])

-----------------------------------------------------------------------------
(* The runs explored                                                       *)

cmd_echo == <<"e", " ", "1">>
cmd_false == <<"f">>
cmd_blank == <<" ">>
cmd_open_quote == <<"e", " ", "'">>

CommandPool == {cmd_echo, cmd_false, cmd_blank, cmd_open_quote}

\* The longest custom build sequence explored.
MaxCommands == 3

src_z == <<"z">>
src_target_p == <<"t", "a", "r", "g", "e", "t", "/", "p">>
src_target_x == <<"t", "a", "r", "g", "e", "t", "/", "x">>
out_dir == <<"o">>
changelog_path == <<"l">>
archive_file == "target/p-1.tar.gz"

\* No manifest; one file; one directory; two files on one destination; a
\* file the tree lacks; a build output; a project file and a build output
\* of the same base name.
PipelineAssets ==
  { None,
    Some(<<Asset(src_x, dest_a_f, Some(mode_644), TRUE)>>),
    Some(<<Asset(src_c, dest_e, Some(mode_755), TRUE)>>),
    Some(<<Asset(src_x, dest_a_f, Some(mode_644), TRUE), Asset(src_y, dest_a_f, None, FALSE)>>),
    Some(<<Asset(src_z, dest_g, None, TRUE)>>),
    Some(<<Asset(src_target_p, dest_g, Some(mode_755), FALSE)>>),
    Some(<<Asset(src_x, dest_a_f, Some(mode_644), TRUE),
           Asset(src_target_x, dest_g, None, FALSE)>>) }

PipelineConfigs ==
  { RevolveConfig(spec_template_path, o, None, None, b, a, None, None)
    : o \in {None, Some(out_dir)},
      b \in {None, Some(Single(cmd_echo))},
      a \in PipelineAssets }
  \cup { RevolveConfig(spec_template_path, None, Some(changelog_path), None, None, None, None, None) }

CompileConfigs ==
  { RevolveConfig(spec_template_path, None, None, f, None, None, None, None)
    : f \in {Some(<<>>), Some(<<arg_debug>>)} }
  \cup { RevolveConfig(spec_template_path, None, None, None, Some(b), None, None, None)
         : b \in {Single(c) : c \in CommandPool}
                 \cup {Sequence(q) : q \in SeqsUpTo(CommandPool, MaxCommands)} }

Flags == [dry_run : BOOLEAN, no_archive : BOOLEAN, verify : BOOLEAN]

World(rpmbuild_on_path, tree, prior) ==
  [rpmbuild_on_path |-> rpmbuild_on_path, tree |-> tree, prior |-> prior]

\* What the builder may have packaged, as the verification reads it back.
PipelineRpms ==
  {None} \cup
  { Some([name |-> Some(name_p), version |-> Some(version_1), license |-> None,
          summary |-> None, files |-> f]) : f \in RecordedFiles }

RunState(cfg) ==
  [mutable_config |-> cfg, created_dirs |-> None, source_archive_path |-> None,
   archive_entries |-> <<>>, rendered |-> None, report |-> None,
   artifacts |-> <<>>, verified |-> None]

Init ==
  /\ ExpandIdle
  /\ VerifyIdle
  /\ StreamIdle
  /\ pc = "EnvironmentCheck"
  /\ \/ /\ config \in PipelineConfigs
        /\ flags \in Flags
        /\ \E on_path \in BOOLEAN, tree \in {TreeFirstFile, TreeNoDirs},
              prior \in {CleanDisk, UsedDisk} :
             /\ world = World(on_path, tree, prior)
             /\ disk = prior
     \/ /\ config \in CompileConfigs
        /\ flags \in {f \in Flags : f.no_archive /\ ~f.verify}
        /\ world = World(TRUE, TreeNoDirs, CleanDisk)
        /\ disk = CleanDisk
  /\ spawned = <<>>
  /\ steps = <<>>
  /\ error = None
  /\ run_state = RunState(config)

-----------------------------------------------------------------------------
(* run (build.rs 22-178): one action per step                              *)

\* Orders of the steps that run does not have: the builder invoked in a dry
\* run, and the archive created whatever --no-archive says.
next_step_ignoring_dry_run(step, fl) ==
  CASE step = "EnvironmentCheck" -> "Compile"
    [] step = "Compile" -> "AssetExpansion"
    [] step = "AssetExpansion" -> "Cleanup"
    [] step = "Cleanup" -> "DirectoryPrep"
    [] step = "DirectoryPrep" -> IF ~fl.no_archive THEN "ArchiveCreate" ELSE "Render"
    [] step = "ArchiveCreate" -> "Render"
    [] step = "Render" -> "Invoke"
    [] step = "DryRunReport" -> "Done"
    [] step = "Invoke" -> "Collect"
    [] step = "Collect" -> IF fl.verify THEN "Verify" ELSE "Done"
    [] step = "Verify" -> "Done"

next_step_archive_always(step, fl) ==
  CASE step = "EnvironmentCheck" -> "Compile"
    [] step = "Compile" -> "AssetExpansion"
    [] step = "AssetExpansion" -> "Cleanup"
    [] step = "Cleanup" -> "DirectoryPrep"
    [] step = "DirectoryPrep" -> "ArchiveCreate"
    [] step = "ArchiveCreate" -> "Render"
    [] step = "Render" -> IF fl.dry_run THEN "DryRunReport" ELSE "Invoke"
    [] step = "DryRunReport" -> "Done"
    [] step = "Invoke" -> "Collect"
    [] step = "Collect" -> IF fl.verify THEN "Verify" ELSE "Done"
    [] step = "Verify" -> "Done"

\* An order in which the assets are expanded after the working directory
\* was cleaned and prepared.
next_step_expanding_late(step, fl) ==
  CASE step = "EnvironmentCheck" -> "Compile"
    [] step = "Compile" -> "Cleanup"
    [] step = "Cleanup" -> "DirectoryPrep"
    [] step = "DirectoryPrep" -> "AssetExpansion"
    [] step = "AssetExpansion" -> IF ~fl.no_archive THEN "ArchiveCreate" ELSE "Render"
    [] step = "ArchiveCreate" -> "Render"
    [] step = "Render" -> IF fl.dry_run THEN "DryRunReport" ELSE "Invoke"
    [] step = "DryRunReport" -> "Done"
    [] step = "Invoke" -> "Collect"
    [] step = "Collect" -> IF fl.verify THEN "Verify" ELSE "Done"
    [] step = "Verify" -> "Done"

\* The step that follows a step that succeeded.
next_step(step, fl) ==
  CASE step = "EnvironmentCheck" -> "Compile"
    [] step = "Compile" -> "AssetExpansion"
    [] step = "AssetExpansion" -> "Cleanup"
    [] step = "Cleanup" -> "DirectoryPrep"
    [] step = "DirectoryPrep" -> IF ~fl.no_archive THEN "ArchiveCreate" ELSE "Render"
    [] step = "ArchiveCreate" -> "Render"
    [] step = "Render" -> IF fl.dry_run THEN "DryRunReport" ELSE "Invoke"
    [] step = "DryRunReport" -> "Done"
    [] step = "Invoke" -> "Collect"
    [] step = "Collect" -> IF fl.verify THEN "Verify" ELSE "Done"
    [] step = "Verify" -> "Done"

\* An error that is noted while the run goes on to the next step.
advance_ignoring_errors(step, err, fl) == next_step(step, fl)

\* The `?` after each call: an error leaves run at once.
advance(step, err, fl) ==
  IF IsSome(err) THEN "Failed" ELSE next_step(step, fl)

raise(step, err) ==
  IF IsSome(err)
    THEN Some([step |-> step, kind |-> Unwrap(err).kind,
               command |-> Unwrap(err).command, status |-> Unwrap(err).status])
    ELSE error

Finish(step, err) ==
  /\ pc' = advance(step, err, flags)
  /\ error' = raise(step, err)
  /\ steps' = Append(steps, step)
  /\ UNCHANGED <<flags, config, world, expand_vars, verify_vars, stream_vars>>

EnvironmentCheck ==
  /\ pc = "EnvironmentCheck"
  /\ Finish("EnvironmentCheck", check_environment(world.rpmbuild_on_path))
  /\ UNCHANGED <<disk, spawned, run_state>>

CommandCount(cfg) ==
  IF IsSome(cfg.build_command) /\ Len(Unwrap(cfg.build_command).cmds) > 0
    THEN Len(Unwrap(cfg.build_command).cmds) ELSE 1

Compile ==
  /\ pc = "Compile"
  /\ \E outcomes \in [1..CommandCount(config) -> Outcomes] :
       LET r == execute_build_process(config, flags.dry_run, outcomes)
       IN /\ spawned' = spawned \o r.procs
          /\ disk' = IF ~IsSome(config.build_command) /\ ~IsSome(r.err)
                       THEN [disk EXCEPT !.build_output = TRUE] ELSE disk
          /\ Finish("Compile", r.err)
  /\ UNCHANGED run_state

\* A copy that carries the expanded assets and forgets the output directory.
expanded_assets_config_without_output_dir(cfg, final_assets) ==
  [cfg EXCEPT !.assets = Some(final_assets), !.output_dir = None]

\* _expanded_assets_config: a new RevolveConfig, every field cloned from the
\* caller's but assets.
expanded_assets_config(cfg, final_assets) ==
  [spec_template |-> cfg.spec_template,
   output_dir |-> cfg.output_dir,
   changelog |-> cfg.changelog,
   build_flags |-> cfg.build_flags,
   assets |-> Some(final_assets),
   verify_license |-> cfg.verify_license,
   verify_summary |-> cfg.verify_summary,
   build_command |-> cfg.build_command]

AssetExpansion ==
  /\ pc = "AssetExpansion"
  /\ IF IsSome(config.assets)
       THEN LET r == expand_assets(Unwrap(config.assets), world.tree)
            IN IF r.ok
                 THEN /\ run_state' =
                           [run_state EXCEPT
                              !.mutable_config = expanded_assets_config(config, r.final_assets),
                              !.created_dirs = Some(r.dirs)]
                      /\ Finish("AssetExpansion", None)
                 ELSE /\ UNCHANGED run_state
                      /\ Finish("AssetExpansion",
                                Some(ProcessError(Unwrap(r.err).kind, Unwrap(r.err).dest, 0)))
       ELSE /\ UNCHANGED run_state
            /\ Finish("AssetExpansion", None)
  /\ UNCHANGED <<disk, spawned>>

Cleanup ==
  /\ pc = "Cleanup"
  /\ IF ~flags.dry_run /\ disk.revolve
       THEN \E removed \in BOOLEAN :
              IF removed
                THEN /\ disk' = remove_dir_all(disk)
                     /\ Finish("Cleanup", None)
                ELSE /\ UNCHANGED disk
                     /\ Finish("Cleanup", Some(ProcessError("IoError", <<>>, 0)))
       ELSE /\ UNCHANGED disk
            /\ Finish("Cleanup", None)
  /\ UNCHANGED <<spawned, run_state>>

DirectoryPrep ==
  /\ pc = "DirectoryPrep"
  /\ \E created \in BOOLEAN :
       IF created
         THEN /\ disk' = create_build_dir(disk)
              /\ Finish("DirectoryPrep", None)
         ELSE /\ UNCHANGED disk
              /\ Finish("DirectoryPrep", Some(ProcessError("IoError", <<>>, 0)))
  /\ UNCHANGED <<spawned, run_state>>

ArchiveCreate ==
  /\ pc = "ArchiveCreate"
  /\ \E create_ok \in BOOLEAN :
       LET r == create_artifact_archive(run_state.mutable_config, world.tree, disk,
                                        flags.dry_run, create_ok)
       IN /\ disk' = IF r.wrote THEN [disk EXCEPT !.archive = "fresh"] ELSE disk
          /\ run_state' = IF IsSome(r.err) THEN run_state
                          ELSE [run_state EXCEPT !.source_archive_path = Some(archive_file),
                                                 !.archive_entries = r.entries]
          /\ Finish("ArchiveCreate", r.err)
  /\ UNCHANGED spawned

Render ==
  /\ pc = "Render"
  /\ \E changelog_readable \in BOOLEAN, template \in {"ok", "missing", "render_error"},
        write_ok \in BOOLEAN :
       LET r == render_spec(run_state.mutable_config, run_state.created_dirs,
                            changelog_readable, template, write_ok)
       IN /\ disk' = IF r.wrote THEN [disk EXCEPT !.spec_file = "fresh"] ELSE disk
          /\ run_state' = [run_state EXCEPT !.rendered = r.rendered]
          /\ Finish("Render", r.err)
  /\ UNCHANGED spawned

DryRunReport ==
  /\ pc = "DryRunReport"
  /\ run_state' = [run_state EXCEPT
                     !.report = Some(dry_run_command(run_state.source_archive_path))]
  /\ Finish("DryRunReport", None)
  /\ UNCHANGED <<disk, spawned>>

Invoke ==
  /\ pc = "Invoke"
  /\ \E fail_at \in {"none", "mkdir", "copy_spec", "copy_archive"},
        outcome \in Outcomes, produced \in SUBSET Producible :
       LET r == execute_rpmbuild(run_state.source_archive_path, disk, fail_at,
                                 outcome, produced)
       IN /\ disk' = r.disk
          /\ spawned' = spawned \o r.procs
          /\ Finish("Invoke", r.err)
  /\ UNCHANGED run_state

Collect ==
  /\ pc = "Collect"
  /\ \E order \in WalkOrders(disk.rpms), mkdir_ok \in BOOLEAN,
        fail_at \in 0..Cardinality(disk.rpms) :
       LET r == collect_artifacts(order, run_state.mutable_config.output_dir, disk,
                                  mkdir_ok, fail_at)
       IN /\ disk' = r.disk
          /\ run_state' = [run_state EXCEPT !.artifacts = r.found_rpms]
          /\ Finish("Collect", r.err)
  /\ UNCHANGED spawned

Verify ==
  /\ pc = "Verify"
  /\ LET main == main_binary_rpm(run_state.artifacts, cargo_package)
     IN IF IsSome(main)
          THEN \E rpm \in PipelineRpms :
                 LET r == verify_package(rpm, cargo_package, run_state.mutable_config)
                 IN /\ run_state' = [run_state EXCEPT
                                       !.verified = Some([path |-> Unwrap(main), result |-> r])]
                    /\ Finish("Verify",
                              IF r.ok THEN None
                              ELSE Some(ProcessError(r.err, Unwrap(main).name, r.issues)))
          ELSE /\ UNCHANGED run_state
               /\ Finish("Verify", Some(ProcessError("MainRpmNotFound", <<>>, 0)))
  /\ UNCHANGED <<disk, spawned>>

Next ==
  \/ EnvironmentCheck
  \/ Compile
  \/ AssetExpansion
  \/ Cleanup
  \/ DirectoryPrep
  \/ ArchiveCreate
  \/ Render
  \/ DryRunReport
  \/ Invoke
  \/ Collect
  \/ Verify

Spec == Init /\ [][Next]_vars

-----------------------------------------------------------------------------
(* Properties of a run                                                     *)

Range(seq) == {seq[i] : i \in DOMAIN seq}

IsPrefix(s, t) == Len(s) <= Len(t) /\ SubSeq(t, 1, Len(s)) = s

StepsDone == Range(steps)

\* Where a collected artifact path points, and what is there now.
ArtifactFiles(a) ==
  IF a.dir = "out"
    THEN {r.origin : r \in {q \in disk.out : q.name = a.name}}
    ELSE {r.origin : r \in {q \in disk.rpms : q.file = RpmFile(a.dir, a.name)}}

NothingStaleInRevolve ==
  /\ disk.spec_file # "stale"
  /\ disk.specs # "stale"
  /\ disk.sources # "stale"
  /\ \A r \in disk.rpms : r.origin = "fresh"

\* C1: in a real run, whatever target/revolve held before, it is gone once
\* DirectoryPrep has run, every artifact path Collect returned points at a
\* file this run's builder wrote, the package verified is one of those, and
\* nothing an earlier run left is copied to the output directory.
C1_CollectedArtifactsAreFresh ==
  ~flags.dry_run =>
    /\ "DirectoryPrep" \in StepsDone => NothingStaleInRevolve
    /\ \A i \in DOMAIN run_state.artifacts :
         ArtifactFiles(run_state.artifacts[i]) = {"fresh"}
    /\ IsSome(run_state.verified) =>
         ArtifactFiles(Unwrap(run_state.verified).path) = {"fresh"}
    /\ \A r \in disk.out : r.origin = "stale" => r \in world.prior.out

C1_Witness ==
  /\ pc = "Done"
  /\ ~flags.dry_run
  /\ world.prior = UsedDisk
  /\ IsSome(config.output_dir)
  /\ Len(run_state.artifacts) = 2
  /\ IsSome(run_state.verified)
  /\ [name |-> rpm_main, origin |-> "fresh"] \in disk.out

C3_DryRunNeverBuilds ==
  flags.dry_run =>
    /\ \A i \in DOMAIN spawned : spawned[i].kind # "rpmbuild"
    /\ StepsDone \cap {"Invoke", "Collect", "Verify"} = {}
    /\ run_state.artifacts = <<>>
    /\ disk.out = world.prior.out
    /\ disk.out_dir = world.prior.out_dir
    /\ disk.rpms = world.prior.rpms
    /\ run_state.verified = None

C3_Witness ==
  /\ flags.dry_run
  /\ flags.verify
  /\ ~flags.no_archive
  /\ IsSome(config.output_dir)
  /\ pc = "Done"
  /\ IsSome(run_state.report)
  /\ IsSome(run_state.rendered)

\* C6: once a step has failed the run is over: it ends in failure, the step
\* that failed is the last one that ran, no step is enabled any more, and
\* no step and no external process invocation is made twice in a run.
C6_FailureAbortsAndNothingIsRetried ==
  /\ IsSome(error) => /\ pc = "Failed"
                      /\ steps # <<>>
                      /\ steps[Len(steps)] = Unwrap(error).step
  /\ pc = "Failed" => IsSome(error) /\ ~ENABLED Next
  /\ \A i, j \in DOMAIN steps : i # j => steps[i] # steps[j]
  /\ \A i, j \in DOMAIN spawned :
       i # j => <<spawned[i].kind, spawned[i].index>> # <<spawned[j].kind, spawned[j].index>>

C6_Witness ==
  /\ pc = "Failed"
  /\ Unwrap(error).step = "Invoke"
  /\ Unwrap(error).kind = "RpmbuildFailed"
  /\ Len(spawned) = 2
  /\ flags.verify
  /\ IsSome(config.output_dir)
  /\ disk.rpms # {}

CustomProcesses == SelectSeq(spawned, LAMBDA p : p.kind = "custom")

\* C7: the processes of a custom build sequence are its non-blank commands
\* in declared order with none skipped; every one but the last exited with
\* status zero; one that exits nonzero is the last, and the error of the run
\* then carries that command's string and its exit status; when none fails
\* every non-blank command has run.
C7_CustomSequenceStopsAtFirstFailure ==
  (IsSome(config.build_command) /\ ~flags.dry_run /\ "Compile" \in StepsDone) =>
    LET cmds == Unwrap(config.build_command).cmds
        procs == CustomProcesses
        n == Len(procs)
        last_index == IF n = 0 THEN 0 ELSE procs[n].index
        ran(k) == \E i \in 1..n : procs[i].index = k
        failed_in_compile == IsSome(error) /\ Unwrap(error).step = "Compile"
    IN /\ \A i, j \in 1..n : i < j => procs[i].index < procs[j].index
       /\ \A i \in 1..n :
            /\ procs[i].index \in DOMAIN cmds
            /\ shlex_split(cmds[procs[i].index]) = Some(<<procs[i].program>> \o procs[i].args)
       /\ \A k \in DOMAIN cmds :
            k < last_index => /\ IsSome(shlex_split(cmds[k]))
                              /\ Unwrap(shlex_split(cmds[k])) # <<>> => ran(k)
       /\ \A i \in 1..(n - 1) : procs[i].status = 0
       /\ (n > 0 /\ procs[n].status \notin {0, SpawnFailed}) =>
            /\ pc = "Failed"
            /\ Unwrap(error).step = "Compile"
            /\ Unwrap(error).kind = "CustomBuildFailed"
            /\ Unwrap(error).command = cmds[procs[n].index]
            /\ Unwrap(error).status = procs[n].status
       /\ ~failed_in_compile =>
            \A k \in DOMAIN cmds :
              /\ IsSome(shlex_split(cmds[k]))
              /\ Unwrap(shlex_split(cmds[k])) # <<>> => ran(k)

C7_Witness ==
  /\ IsSome(config.build_command)
  /\ Unwrap(config.build_command) = Sequence(<<cmd_echo, cmd_false, cmd_echo>>)
  /\ ~flags.dry_run
  /\ Len(CustomProcesses) = 2
  /\ CustomProcesses[2].status = 1
  /\ pc = "Failed"
  /\ Unwrap(error).command = cmd_false
  /\ Unwrap(error).status = 1

\* The steps of a real run, in order.
RealRunOrder(fl) ==
  <<"EnvironmentCheck", "Compile", "AssetExpansion", "Cleanup", "DirectoryPrep">>
  \o (IF ~fl.no_archive THEN <<"ArchiveCreate">> ELSE <<>>)
  \o <<"Render", "Invoke", "Collect">>
  \o (IF fl.verify THEN <<"Verify">> ELSE <<>>)

\* C10: the steps a real run has taken are always a prefix of
\* EnvironmentCheck, Compile, AssetExpansion, Cleanup, DirectoryPrep,
\* ArchiveCreate (exactly when --no-archive is not given), Render, Invoke,
\* Collect, Verify (exactly when --verify is given); a step runs only when
\* all before it succeeded, and a run that reaches Done has taken them all.
C10_RealRunStepOrder ==
  ~flags.dry_run =>
    /\ IsPrefix(steps, RealRunOrder(flags))
    /\ IsSome(error) => Unwrap(error).step = steps[Len(steps)]
    /\ pc = "Done" => steps = RealRunOrder(flags) /\ error = None
    /\ pc \notin {"Done", "Failed"} =>
         /\ error = None
         /\ Len(steps) < Len(RealRunOrder(flags))
         /\ pc = RealRunOrder(flags)[Len(steps) + 1]

C10_Witness ==
  /\ ~flags.dry_run
  /\ pc = "Done"
  /\ ~flags.no_archive
  /\ flags.verify
  /\ Len(steps) = 10
  /\ world.prior = UsedDisk
  /\ IsSome(config.assets)

\* What a dry run may change: target/revolve/build and the rendered control
\* file in it.
OutsideBuildDir(d) ==
  [d EXCEPT !.revolve = TRUE, !.build_dir = TRUE, !.spec_file = "any"]

\* C11: a dry run changes nothing on disk but target/revolve/build and the
\* rendered control file in it, whatever the configuration: it spawns no
\* process that writes compiled output (no compiler, no custom step, no
\* builder), removes nothing an earlier run left, and writes no archive, no
\* staging directory and no output-directory file.
C11_DryRunMutatesOnlyBuildDir ==
  flags.dry_run =>
    /\ spawned = <<>>
    /\ OutsideBuildDir(disk) = OutsideBuildDir(world.prior)
    /\ world.prior.revolve => disk.revolve
    /\ world.prior.build_dir => disk.build_dir
    /\ world.prior.spec_file # "absent" => disk.spec_file # "absent"

\* C12: a dry run never fails for want of rpmbuild on the search path.
C12_DryRunNeedsNoBuilder ==
  flags.dry_run => ~(IsSome(error) /\ Unwrap(error).kind = "ToolNotFound")

\* The parts of an rpmbuild command line: the build-mode option, the
\* argument that follows it, and the --define options.
BuildModes == {"-ba", "-bb", "-ta", "-tb"}

BuildMode(cmd) == {cmd[i] : i \in {j \in DOMAIN cmd : cmd[j] \in BuildModes}}

ModeArgument(cmd) ==
  {cmd[i + 1] : i \in {j \in DOMAIN cmd : cmd[j] \in BuildModes /\ j < Len(cmd)}}

Definitions(cmd) ==
  {cmd[i] : i \in {j \in DOMAIN cmd :
                     cmd[j] \in {"--define=_topdir", "--define=_sourcedir"}}}

\* SPECS/spec is a copy of build/spec: as control files they are the same.
ControlFile(path) == IF path \in {"build/spec", "SPECS/spec"} THEN "spec" ELSE path

\* C13: the command a dry run prints has the build-mode option, the
\* control-file argument and the definitions of the command a real run
\* with the same configuration and flags executes.
C13_DryRunCommandIsFaithful ==
  (flags.dry_run /\ IsSome(run_state.report)) =>
    LET printed == Tail(Unwrap(run_state.report))
        executed == rpmbuild_args(run_state.source_archive_path)
    IN /\ Unwrap(run_state.report)[1] = "rpmbuild"
       /\ BuildMode(printed) = BuildMode(executed)
       /\ {ControlFile(a) : a \in ModeArgument(printed)}
            = {ControlFile(a) : a \in ModeArgument(executed)}
       /\ Definitions(printed) = Definitions(executed)

-----------------------------------------------------------------------------
(* Directory assets                                                        *)

\* What is found under the root of a directory asset, at any depth.
FilesUnder(asset, tree) ==
  {f \in FilesOf(tree) : IsUnder(f, Components(asset.source))}

DirsUnder(asset, tree) ==
  {d \in DOMAIN tree : IsUnder(d, Components(asset.source))}

\* dest joined with the path of an entry relative to the walked root.
MappedDest(asset, entry) ==
  LET rel == SubSeq(entry, Len(Components(asset.source)) + 1, Len(entry))
  IN IF rel = <<>> THEN asset.dest
     ELSE asset.dest \o <<"/">> \o JoinWith(rel, <<"/">>)

\* The number of file assets a declared list resolves to.
RECURSIVE ResolvedCount(_, _, _)
ResolvedCount(assets, tree, i) ==
  IF i > Len(assets) THEN 0
  ELSE (IF IsDirectoryAsset(assets[i])
          THEN Cardinality(FilesUnder(assets[i], tree)) ELSE 1)
       + ResolvedCount(assets, tree, i + 1)

\* C14: when expand succeeds, a directory asset with mkdir = true has given
\* exactly one file asset for each file at any depth under its root, with
\* the file's path from the project root as source, dest joined with the
\* file's path from the walked root as destination and the declared mode;
\* the manifest holds nothing else; and the directory set holds the mapped
\* destination of every directory under the root and of the root itself.
C14_DirectoryAssetExpandsToItsFiles ==
  (IsSome(expanded) /\ Unwrap(expanded).ok) =>
    LET r == Unwrap(expanded)
    IN /\ Len(r.final_assets) = ResolvedCount(initial_assets, project_tree, 1)
       /\ \A i \in DOMAIN initial_assets :
            LET asset == initial_assets[i]
            IN (IsDirectoryAsset(asset) /\ asset.mkdir) =>
                 /\ \A f \in FilesUnder(asset, project_tree) :
                      Cardinality({k \in DOMAIN r.final_assets :
                                     /\ r.final_assets[k].source = PathString(f)
                                     /\ r.final_assets[k].dest = MappedDest(asset, f)
                                     /\ r.final_assets[k].mode = asset.mode
                                     /\ r.final_assets[k].mkdir}) = 1
                 /\ \A d \in DirsUnder(asset, project_tree) :
                      \E k \in DOMAIN r.dirs : r.dirs[k] = MappedDest(asset, d)

\* c/ holds f and n/b: two file assets and the directories /a and /a/n;
\* d/ is empty and still yields its destination directory /e/n.
C14_Witness ==
  /\ IsSome(expanded)
  /\ Unwrap(expanded).ok
  /\ project_tree = TreeFirstDir
  /\ initial_assets = <<Asset(src_d, dest_e_n, None, TRUE),
                        Asset(src_c, dest_a, None, TRUE)>>
  /\ Len(Unwrap(expanded).final_assets) = 2
  /\ Unwrap(expanded).dirs = <<dest_a, dest_a \o <<"/", "n">>, dest_e_n>>

-----------------------------------------------------------------------------
(* Rendering                                                               *)

\* Two trees with the same directories and the same entries in each; the
\* order in which the file system lists a directory is not part of it.
SameTree(t, u) ==
  /\ DOMAIN t = DOMAIN u
  /\ \A d \in DOMAIN t : Range(t[d]) = Range(u[d])

\* What another run with the same configuration, package and changelog
\* content renders over the tree t.
RenderedOver(t, changelog_content) ==
  IF IsSome(config.assets)
    THEN LET r == expand_assets(Unwrap(config.assets), t)
         IN TemplateContext([config EXCEPT !.assets = Some(r.final_assets)],
                            Some(r.dirs), changelog_content)
    ELSE TemplateContext(config, None, changelog_content)

\* C15: what a run renders is what any other run with the same
\* configuration, package and on-disk tree renders, file entries and
\* directory list in the same order.
C15_RenderIsDeterministic ==
  IsSome(run_state.rendered) =>
    \A t \in ProjectTrees :
      SameTree(t, world.tree) =>
        RenderedOver(t, Unwrap(run_state.rendered).changelog) = Unwrap(run_state.rendered)

\* The directory list alone is the same in every listing order.
C15_DirectoryListIsSorted ==
  IsSome(run_state.rendered) =>
    \A t \in ProjectTrees :
      SameTree(t, world.tree) =>
        /\ RenderedOver(t, None).created_dirs = Unwrap(run_state.rendered).created_dirs
        /\ IsSome(config.assets) =>
             Range(Unwrap(RenderedOver(t, None).assets))
               = Range(Unwrap(Unwrap(run_state.rendered).assets))

\* The changelog was configured and could not be read when Render ran.
ChangelogUnreadable ==
  /\ IsSome(config.changelog)
  /\ IsSome(run_state.rendered)
  /\ ~IsSome(Unwrap(run_state.rendered).changelog)

\* C16: with a changelog configured, Render never fails over the changelog:
\* its errors are those of the template and of writing the file; when the
\* changelog cannot be read the context has no changelog and is the context
\* of the same configuration without a changelog, and a run at Render has
\* the outcomes of that configuration, whatever else happens.
C16_UnreadableChangelogIsNotFatal ==
  IsSome(config.changelog) =>
    /\ (IsSome(error) /\ Unwrap(error).step = "Render") =>
         Unwrap(error).kind \in {"TemplateNotFound", "TemplateRenderError", "IoError"}
    /\ ChangelogUnreadable =>
         Unwrap(run_state.rendered) =
           TemplateContext([run_state.mutable_config EXCEPT !.changelog = None],
                           run_state.created_dirs, None)
    /\ pc = "Render" =>
         \A template \in {"ok", "missing", "render_error"}, write_ok \in BOOLEAN :
           render_spec(run_state.mutable_config, run_state.created_dirs,
                       FALSE, template, write_ok)
             = render_spec([run_state.mutable_config EXCEPT !.changelog = None],
                           run_state.created_dirs, TRUE, template, write_ok)

\* A real run whose changelog could not be read and that built, collected
\* and verified a package.
C16_Witness ==
  /\ ChangelogUnreadable
  /\ ~flags.dry_run
  /\ flags.verify
  /\ pc = "Done"
  /\ run_state.artifacts # <<>>

-----------------------------------------------------------------------------
(* The archive                                                             *)

\* Where a manifest asset is expected on disk, and whether it is there,
\* stated over the disk and the tree.
UnderTarget(source) ==
  /\ Len(source) >= 7
  /\ [i \in 1..7 |-> source[i]] = <<"t", "a", "r", "g", "e", "t", "/">>

ExpectedPath(asset) ==
  IF UnderTarget(asset.source)
    THEN [root |-> "target_dir", rel |-> SubSeq(asset.source, 8, Len(asset.source))]
    ELSE [root |-> "project_dir", rel |-> asset.source]

OnDisk(asset) ==
  IF ExpectedPath(asset).root = "target_dir"
    THEN disk.build_output
    ELSE \/ Components(asset.source) \in FilesOf(world.tree)
         \/ Components(asset.source) \in DOMAIN world.tree

Manifest ==
  IF IsSome(run_state.mutable_config.assets)
    THEN Unwrap(run_state.mutable_config.assets) ELSE <<>>

MissingAssets == {i \in DOMAIN Manifest : ~OnDisk(Manifest[i])}

ArchiveFailed == IsSome(error) /\ Unwrap(error).step = "ArchiveCreate"

\* C17: in a real run with the archive enabled, once ArchiveCreate has run:
\* if an asset of the manifest is not on disk where it resolves to (under
\* the build output root for a source under target/, under the project root
\* otherwise) the run has failed in ArchiveCreate, with a missing-asset
\* error naming the expected path of the first such asset unless the
\* archive file itself could not be created, and Render, Invoke, Collect
\* and Verify have not run; and a missing-asset error is raised only then.
C17_MissingAssetFailsArchive ==
  (~flags.dry_run /\ ~flags.no_archive /\ "ArchiveCreate" \in StepsDone) =>
    /\ MissingAssets # {} =>
         /\ pc = "Failed"
         /\ ArchiveFailed
         /\ Unwrap(error).kind \in {"MissingAsset", "IoError"}
         /\ Unwrap(error).kind = "MissingAsset" =>
              Unwrap(error).command =
                ExpectedPath(Manifest[CHOOSE i \in MissingAssets :
                                        \A j \in MissingAssets : i <= j])
         /\ disk.archive = "fresh" => Unwrap(error).kind = "MissingAsset"
         /\ StepsDone \cap {"Render", "Invoke", "Collect", "Verify"} = {}
    /\ (ArchiveFailed /\ Unwrap(error).kind = "MissingAsset") => MissingAssets # {}
    /\ ArchiveFailed => StepsDone \cap {"Render", "Invoke", "Collect", "Verify"} = {}

\* A build output declared as an asset that the custom build step did not
\* produce: the error names it under the build output root.
C17_Witness ==
  /\ ~flags.dry_run
  /\ ~flags.no_archive
  /\ flags.verify
  /\ pc = "Failed"
  /\ ArchiveFailed
  /\ Unwrap(error).kind = "MissingAsset"
  /\ Unwrap(error).command = [root |-> "target_dir", rel |-> <<"p">>]
  /\ IsSome(config.build_command)

-----------------------------------------------------------------------------
(* Collection and the choice of the package to verify                      *)

\* Collect has run and returned its list.
Collected ==
  /\ "Collect" \in StepsDone
  /\ ~(IsSome(error) /\ Unwrap(error).step = "Collect")

IsRpmName(name) ==
  /\ Len(name) > 4
  /\ [i \in 1..4 |-> name[Len(name) - 4 + i]] = <<".", "r", "p", "m">>

\* The .rpm files under RPMS.
RpmsFound == {r \in disk.rpms : IsRpmName(r.file.name)}

\* C18: the list Collect returns has exactly one path for each .rpm file
\* under RPMS and nothing else; with an output directory configured every
\* path is the copy in that directory, which exists and is a copy of the
\* file found; with none, every path is the file under RPMS and the output
\* directory is untouched; the package verified is on the list.
C18_CollectReturnsPathsOfRecord ==
  (~flags.dry_run /\ Collected) =>
    LET artifacts == run_state.artifacts
    IN /\ Len(artifacts) = Cardinality(RpmsFound)
       /\ \A r \in RpmsFound :
            Cardinality({i \in DOMAIN artifacts : artifacts[i].name = r.file.name}) = 1
       /\ IF IsSome(config.output_dir)
            THEN /\ disk.out_dir
                 /\ \A i \in DOMAIN artifacts : artifacts[i].dir = "out"
                 /\ \A r \in RpmsFound :
                      [name |-> r.file.name, origin |-> r.origin] \in disk.out
            ELSE /\ \A i \in DOMAIN artifacts :
                      \E r \in RpmsFound :
                        r.file = RpmFile(artifacts[i].dir, artifacts[i].name)
                 /\ disk.out = world.prior.out
                 /\ disk.out_dir = world.prior.out_dir
       /\ IsSome(run_state.verified) =>
            Unwrap(run_state.verified).path \in Range(artifacts)

\* Three packages and a log under RPMS, an output directory, and a package
\* verified from the copies.
C18_Witness ==
  /\ ~flags.dry_run
  /\ pc = "Done"
  /\ IsSome(config.output_dir)
  /\ Cardinality(disk.rpms) = 4
  /\ Len(run_state.artifacts) = 3
  /\ IsSome(run_state.verified)
  /\ Unwrap(run_state.verified).path.dir = "out"
  /\ ~world.prior.out_dir

\* The artifacts that qualify as the primary binary package.
Candidates ==
  {i \in DOMAIN run_state.artifacts :
     LET name == run_state.artifacts[i].name
         prefix == cargo_package.name \o <<"-">> \o cargo_package.version
     IN /\ Len(name) >= Len(prefix)
        /\ [k \in 1..Len(prefix) |-> name[k]] = prefix
        /\ ~contains(name, str_debuginfo)
        /\ ~contains(name, str_debugsource)
        /\ ~contains(name, str_src_rpm)}

VerifyFailed == pc = "Failed" /\ IsSome(error) /\ Unwrap(error).step = "Verify"

\* C19: once Verify has run, the run has failed in Verify without verifying
\* anything when no collected artifact or more than one qualifies as the
\* primary binary package, and the package verified is the one that
\* qualifies when exactly one does.
C19_PrimaryArtifactMustBeUnique ==
  "Verify" \in StepsDone =>
    /\ Cardinality(Candidates) # 1 =>
         /\ VerifyFailed
         /\ ~IsSome(run_state.verified)
    /\ Cardinality(Candidates) = 1 =>
         /\ IsSome(run_state.verified)
         /\ \E i \in Candidates :
              Unwrap(run_state.verified).path = run_state.artifacts[i]

-----------------------------------------------------------------------------
(* Compile                                                                 *)

CompilerProcesses == SelectSeq(spawned, LAMBDA p : p.kind = "cargo")

\* C20: once Compile has run, with a custom build command configured no
\* compiler process was spawned; without one no custom process was spawned
\* and exactly one `cargo build --target-dir <dir>` was, followed by the
\* configured flags, with --release among its arguments exactly when no
\* build flags are configured, an empty list included.
C20_CompileRunsOneAlternative ==
  "Compile" \in StepsDone =>
    IF IsSome(config.build_command)
      THEN CompilerProcesses = <<>>
      ELSE /\ CustomProcesses = <<>>
           /\ Len(CompilerProcesses) = 1
           /\ LET p == CompilerProcesses[1]
                  flags_given == IF IsSome(config.build_flags)
                                   THEN Unwrap(config.build_flags) ELSE <<>>
              IN /\ p.program = <<"c", "a", "r", "g", "o">>
                 /\ IsPrefix(<<arg_build, arg_target_dir, target_dir>> \o flags_given, p.args)
                 /\ (arg_release \in Range(p.args)) <=> ~IsSome(config.build_flags)
                 /\ Len(p.args) = 3 + Len(flags_given)
                                  + (IF IsSome(config.build_flags) THEN 0 ELSE 1)

\* An empty flag list is configured: cargo build ran without --release.
C20_Witness ==
  /\ "Compile" \in StepsDone
  /\ config.build_flags = Some(<<>>)
  /\ Len(CompilerProcesses) = 1
  /\ CompilerProcesses[1].args = <<arg_build, arg_target_dir, target_dir>>
  /\ CompilerProcesses[1].status = 0
  /\ pc = "Done"

-----------------------------------------------------------------------------
(* stream_command (build.rs 314-346): the child, its two output pipes, the *)
(* two reader threads and the calling thread.                              *)

\* The lines a pipe holds before a write of the child blocks.
PipeCapacity == 1

\* The most lines a child writes.
MaxWrites == 3

Fds == {"stdout", "stderr"}

\* One line the child writes: the stream, and whether its bytes are UTF-8.
Write(fd, utf8) == [fd |-> fd, utf8 |-> utf8]

Scripts == SeqsUpTo({Write(fd, utf8) : fd \in Fds, utf8 \in BOOLEAN}, MaxWrites)

\* println! for the reader of stdout, eprintln! for the reader of stderr.
printer(fd) == IF fd = "stdout" THEN "stdout" ELSE "stderr"

\* A reader that takes an empty pipe for the end of the stream.
at_eof_when_empty(pipe, write_end_closed) == pipe = <<>>

\* reader.lines() ends: nothing is buffered and the write end is closed.
at_eof(pipe, write_end_closed) == pipe = <<>> /\ write_end_closed

InitStream ==
  /\ RunIdle
  /\ ExpandIdle
  /\ VerifyIdle
  /\ \E script \in Scripts, exit_status \in {0, 1} :
       stream = [main |-> "spawn", script |-> script, exit_status |-> exit_status,
                 child |-> "none", next |-> 1,
                 pipe |-> [fd \in Fds |-> <<>>],
                 write_end_closed |-> FALSE,
                 reader |-> [fd \in Fds |-> "unstarted"],
                 written |-> [fd \in Fds |-> <<>>],
                 printed |-> [fd \in Fds |-> <<>>],
                 result |-> None]

StreamStep(next_stream) ==
  /\ stream' = next_stream
  /\ UNCHANGED <<run_vars, expand_vars, verify_vars>>

\* cmd.spawn() and the two thread::spawn calls.
SpawnChild ==
  /\ stream.main = "spawn"
  /\ \E spawn_ok \in BOOLEAN :
       IF spawn_ok
         THEN StreamStep([stream EXCEPT !.main = "join_stdout", !.child = "running",
                                        !.reader = [fd \in Fds |-> "running"]])
         ELSE StreamStep([stream EXCEPT !.main = "returned",
                                        !.result = Some([ok |-> FALSE, status |-> SpawnFailed])])

\* The child writes its next line: it blocks while the pipe is full, and a
\* write to a pipe whose reader is gone fails or kills the child.
ChildWrite ==
  /\ stream.main # "panicked"
  /\ stream.child = "running"
  /\ stream.next <= Len(stream.script)
  /\ LET w == stream.script[stream.next]
     IN IF stream.reader[w.fd] = "panicked"
          THEN \E killed \in BOOLEAN :
                 IF killed
                   THEN StreamStep([stream EXCEPT !.child = "exited", !.exit_status = 141,
                                                  !.write_end_closed = TRUE])
                   ELSE StreamStep([stream EXCEPT !.next = @ + 1])
          ELSE /\ Len(stream.pipe[w.fd]) < PipeCapacity
               /\ StreamStep([stream EXCEPT
                                !.pipe[w.fd] = Append(@, [id |-> stream.next, utf8 |-> w.utf8]),
                                !.written[w.fd] = Append(@, stream.next),
                                !.next = @ + 1])

ChildExit ==
  /\ stream.main # "panicked"
  /\ stream.child = "running"
  /\ stream.next > Len(stream.script)
  /\ StreamStep([stream EXCEPT !.child = "exited", !.write_end_closed = TRUE])

\* One turn of `for line in reader.lines()`: print the line, panic on
\* line.unwrap() of bytes that are not UTF-8, or leave the loop at the end.
Reader(fd) ==
  /\ stream.main # "panicked"
  /\ stream.reader[fd] = "running"
  /\ IF at_eof(stream.pipe[fd], stream.write_end_closed)
       THEN StreamStep([stream EXCEPT !.reader[fd] = "done"])
       ELSE /\ stream.pipe[fd] # <<>>
            /\ IF Head(stream.pipe[fd]).utf8
                 THEN StreamStep([stream EXCEPT
                                    !.pipe[fd] = Tail(@),
                                    !.printed[printer(fd)] = Append(@, Head(stream.pipe[fd]).id)])
                 ELSE StreamStep([stream EXCEPT !.pipe[fd] = <<>>,
                                                !.reader[fd] = "panicked"])

\* thread.join().unwrap(): waits for the thread and panics if it panicked.
Join(fd, then) ==
  /\ stream.main = "join_" \o fd
  /\ stream.reader[fd] \in {"done", "panicked"}
  /\ StreamStep([stream EXCEPT
                   !.main = IF stream.reader[fd] = "done" THEN then ELSE "panicked"])

JoinStdout == Join("stdout", "join_stderr")

JoinStderr == Join("stderr", "wait")

\* child.wait() and Ok(status).
Wait ==
  /\ stream.main = "wait"
  /\ stream.child = "exited"
  /\ StreamStep([stream EXCEPT !.main = "returned", !.child = "reaped",
                               !.result = Some([ok |-> TRUE, status |-> stream.exit_status])])

ReaderStdout == Reader("stdout")

ReaderStderr == Reader("stderr")

NextStream ==
  \/ SpawnChild
  \/ ChildWrite
  \/ ChildExit
  \/ ReaderStdout
  \/ ReaderStderr
  \/ JoinStdout
  \/ JoinStderr
  \/ Wait

\* The child and the three threads are scheduled by the operating system:
\* a step that stays possible is taken.
SpecStream ==
  /\ InitStream
  /\ [][NextStream]_vars
  /\ WF_vars(ChildWrite) /\ WF_vars(ChildExit)
  /\ WF_vars(ReaderStdout) /\ WF_vars(ReaderStderr)
  /\ WF_vars(SpawnChild) /\ WF_vars(JoinStdout) /\ WF_vars(JoinStderr) /\ WF_vars(Wait)

\* The lines of the script written to one stream, by position in the script.
LinesOf(script, fd) ==
  LET on_fd == SelectSeq([i \in DOMAIN script |-> [id |-> i, fd |-> script[i].fd]],
                         LAMBDA l : l.fd = fd)
  IN [k \in DOMAIN on_fd |-> on_fd[k].id]

ReadersJoined == \A fd \in Fds : stream.reader[fd] = "done"

\* C21: the exit status is obtained only after both readers have finished
\* and been joined, and once the child has exited the call returns.
C21_RunnerReturnsOnceChildExits ==
  /\ [](stream.child = "reaped" => (ReadersJoined /\ stream.main = "returned"))
  /\ (stream.child = "exited") ~> (stream.main = "returned")

\* The same for a child all of whose lines are UTF-8 text.
C21_TextOutputNeverDeadlocks ==
  (\A i \in DOMAIN stream.script : stream.script[i].utf8) =>
    /\ [](stream.child = "reaped" => (ReadersJoined /\ stream.main = "returned"))
    /\ (stream.child = "exited") ~> (stream.main = "returned")

\* Whatever the child writes, the caller does not stay blocked: it returns
\* or it unwinds with the panic of a reader.
C21_CallerNeverStaysBlocked == <>(stream.main \in {"returned", "panicked"})

-----------------------------------------------------------------------------
(* A dry run against a real run                                            *)

\* The steps of a dry run, in order.
DryRunOrder(fl) ==
  <<"EnvironmentCheck", "Compile", "AssetExpansion", "Cleanup", "DirectoryPrep">>
  \o (IF ~fl.no_archive THEN <<"ArchiveCreate">> ELSE <<>>)
  \o <<"Render", "DryRunReport">>

CompileOutcomes == [1..CommandCount(config) -> Outcomes]

\* What ArchiveCreate would do in this state in a run with the given flag.
ArchiveIn(dry_run, create_ok) ==
  create_artifact_archive(run_state.mutable_config, world.tree, disk, dry_run, create_ok)

-----------------------------------------------------------------------------
(* The directory set of expand_assets                                      *)

Expanded == IsSome(expanded) /\ Unwrap(expanded).ok

Listed(d) == \E k \in DOMAIN Unwrap(expanded).dirs : PathEq(Unwrap(expanded).dirs[k], d)

\* Every listed directory is implied by a declaration with mkdir = true.
OwnedByMkdirTrue ==
  \A k \in DOMAIN Unwrap(expanded).dirs :
    \E i \in DOMAIN initial_assets :
      /\ initial_assets[i].mkdir
      /\ \E d \in ImpliedDirs(initial_assets[i], project_tree) :
           PathEq(d, Unwrap(expanded).dirs[k])

\* C24: the directory set holds only directories implied by a declaration
\* with mkdir = true, and holds no directory that a declaration with
\* mkdir = false implies (its destination directory, a mapped subdirectory
\* or the parent of its file), whatever else is declared.
C24_MkdirFalseDirectoryNeverListed ==
  Expanded =>
    /\ OwnedByMkdirTrue
    /\ \A i \in DOMAIN initial_assets :
         ~initial_assets[i].mkdir =>
           \A d \in ImpliedDirs(initial_assets[i], project_tree) : ~Listed(d)

\* The same where no declaration with mkdir = true implies a directory that
\* a declaration with mkdir = false implies.
C24_HoldsWithoutSharedDirectories ==
  (Expanded /\ \A i, j \in DOMAIN initial_assets :
                 (~initial_assets[i].mkdir /\ initial_assets[j].mkdir) =>
                   \A d \in ImpliedDirs(initial_assets[i], project_tree),
                      e \in ImpliedDirs(initial_assets[j], project_tree) : ~PathEq(d, e))
  => /\ OwnedByMkdirTrue
     /\ \A i \in DOMAIN initial_assets :
          ~initial_assets[i].mkdir =>
            \A d \in ImpliedDirs(initial_assets[i], project_tree) : ~Listed(d)

OnlyFileAssets == \A i \in DOMAIN initial_assets : ~IsDirectoryAsset(initial_assets[i])

\* The parents that file assets with mkdir = true add, given which parents count.
ParentsAdded(Counts(_)) ==
  /\ \A i \in DOMAIN initial_assets :
       LET parent == PathParent(initial_assets[i].dest)
       IN (initial_assets[i].mkdir /\ IsSome(parent) /\ Counts(Unwrap(parent)))
            => Listed(Unwrap(parent))
  /\ \A k \in DOMAIN Unwrap(expanded).dirs :
       \E i \in DOMAIN initial_assets :
         LET parent == PathParent(initial_assets[i].dest)
         IN /\ initial_assets[i].mkdir
            /\ IsSome(parent)
            /\ Counts(Unwrap(parent))
            /\ PathEq(Unwrap(parent), Unwrap(expanded).dirs[k])

NotRoot(path) == Components(path) \notin {<<>>, <<RootDir>>}

NotEmpty(path) == Components(path) # <<>>

\* C25: file assets pass through unchanged, and the parent of a destination
\* is in the directory set if and only if an asset with that parent has
\* mkdir = true and the parent is not the root; a destination directly
\* under the root adds no directory.
C25_FileAssetAddsParentUnlessRoot ==
  (Expanded /\ OnlyFileAssets) =>
    /\ Unwrap(expanded).final_assets = initial_assets
    /\ ParentsAdded(NotRoot)

\* What the code does: the parent is left out only when it is empty.
C25_FileAssetAddsParentUnlessEmpty ==
  (Expanded /\ OnlyFileAssets) =>
    /\ Unwrap(expanded).final_assets = initial_assets
    /\ ParentsAdded(NotEmpty)

\* C29: the directory list is in strictly ascending order of its strings,
\* so it is sorted and no string occurs twice; no two entries are the same
\* path; and every directory a declaration with mkdir = true implies is in
\* it, once, however many declarations reach it.
C29_DirectoryListSortedAndDistinct ==
  Expanded =>
    LET dirs == Unwrap(expanded).dirs
    IN /\ \A k \in 1..(Len(dirs) - 1) : StrLess(dirs[k], dirs[k + 1])
       /\ \A k, l \in DOMAIN dirs : PathEq(dirs[k], dirs[l]) => k = l
       /\ \A i \in DOMAIN initial_assets :
            (initial_assets[i].mkdir /\ IsDirectoryAsset(initial_assets[i])) =>
              \A d \in ImpliedDirs(initial_assets[i], project_tree) :
                Cardinality({k \in DOMAIN dirs : PathEq(dirs[k], d)}) = 1

\* /e/n is the root of one walked directory and a subdirectory of another,
\* and the root is the parent of a file: declared in an order that is not
\* the sorted one.
C29_Witness ==
  /\ Expanded
  /\ initial_assets = <<Asset(src_d, dest_e_n, None, TRUE),
                        Asset(src_c, dest_e, Some(mode_755), TRUE),
                        Asset(src_x, dest_g, None, TRUE)>>
  /\ project_tree = TreeFirstDir
  /\ Unwrap(expanded).dirs = <<RootDir, dest_e, dest_e_n>>

-----------------------------------------------------------------------------
(* A failed asset expansion                                                *)

ExpansionFailed == IsSome(error) /\ Unwrap(error).step = "AssetExpansion"

\* The disk but for what the compiler wrote.
BesideBuildOutput(d) == [d EXCEPT !.build_output = TRUE]

\* C26 as stated: when expansion fails nothing has run and nothing on disk
\* has changed.
C26_AssetErrorBeforeAnyBuildStep ==
  ExpansionFailed =>
    /\ spawned = <<>>
    /\ disk = world.prior
    /\ run_state = RunState(config)

\* C26, amended: when expansion fails with an invalid directory source or a
\* duplicate destination, the run has done EnvironmentCheck and Compile and
\* nothing else: the compiler or the custom build steps have run with
\* success (a dry run with custom build steps has run nothing), the disk
\* differs from the one the run found at most in the compiled output, the
\* working directory of the earlier run is not removed, and no directory,
\* archive or control file is created or written.
C26_AssetErrorComesAfterCompileOnly ==
  ExpansionFailed =>
    /\ pc = "Failed"
    /\ steps = <<"EnvironmentCheck", "Compile", "AssetExpansion">>
    /\ Unwrap(error).kind \in {"InvalidAssetSource", "DuplicateDestination"}
    /\ (spawned = <<>>) <=> (flags.dry_run /\ IsSome(config.build_command))
    /\ \A i \in DOMAIN spawned :
         spawned[i].kind \in {"cargo", "custom"} /\ spawned[i].status = 0
    /\ BesideBuildOutput(disk) = BesideBuildOutput(world.prior)
    /\ disk.build_output # world.prior.build_output => ~IsSome(config.build_command)
    /\ run_state = RunState(config)

\* A real run stops at a duplicate destination after the compiler has
\* written its output; what the earlier run left is still there.
C26_Witness ==
  /\ ExpansionFailed
  /\ ~flags.dry_run
  /\ Unwrap(error).kind = "DuplicateDestination"
  /\ Len(spawned) = 1
  /\ spawned[1].kind = "cargo"
  /\ world.prior = UsedDisk
  /\ disk.rpms = UsedDisk.rpms

-----------------------------------------------------------------------------
(* The configuration of the caller and the one derived from it             *)

ExpansionDone ==
  /\ \E i \in DOMAIN steps : steps[i] = "AssetExpansion"
  /\ ~ExpansionFailed

StepSucceeded(step) ==
  /\ \E i \in DOMAIN steps : steps[i] = step
  /\ ~(IsSome(error) /\ Unwrap(error).step = step)

DerivedConfigInUse ==
  /\ ~ExpansionDone =>
       /\ run_state.mutable_config = config
       /\ run_state.created_dirs = None
  /\ (ExpansionDone /\ ~IsSome(config.assets)) =>
       /\ run_state.mutable_config = config
       /\ run_state.created_dirs = None
  /\ (ExpansionDone /\ IsSome(config.assets)) =>
       LET r == expand_assets(Unwrap(config.assets), world.tree)
       IN /\ r.ok
          /\ DOMAIN run_state.mutable_config = DOMAIN config
          /\ \A field \in DOMAIN config \ {"assets"} :
               run_state.mutable_config[field] = config[field]
          /\ run_state.mutable_config.assets = Some(r.final_assets)
          /\ run_state.created_dirs = Some(r.dirs)
  /\ (StepSucceeded("ArchiveCreate") /\ ~flags.dry_run) =>
       run_state.archive_entries
         = IF IsSome(run_state.mutable_config.assets)
             THEN [k \in DOMAIN Unwrap(run_state.mutable_config.assets) |->
                     [name |-> archive_dest_path(Unwrap(run_state.mutable_config.assets)[k].source),
                      source |-> Unwrap(run_state.mutable_config.assets)[k].source]]
             ELSE <<>>
  /\ IsSome(run_state.rendered) =>
       /\ Unwrap(run_state.rendered).assets = run_state.mutable_config.assets
       /\ Unwrap(run_state.rendered).build_flags = config.build_flags
       /\ Unwrap(run_state.rendered).created_dirs = run_state.created_dirs
  /\ IsSome(run_state.verified) =>
       \E rpm \in PipelineRpms :
         Unwrap(run_state.verified).result
           = verify_package(rpm, cargo_package, run_state.mutable_config)

\* C27: no step changes the caller's configuration; until the expansion
\* has succeeded, and ever after when no assets are configured, the run
\* works on the caller's configuration and has no directory list; after it
\* the run works on a configuration that has the expanded manifest for
\* assets and the caller's value in every other field, and the archive,
\* the rendered control file and the verification are made from that one.
C27_ConfigIsDerivedNotMutated ==
  /\ []DerivedConfigInUse
  /\ [][config' = config]_vars

\* A run through Verify over a directory asset: the manifest in use has the
\* two files of the directory, the caller's list still has the one
\* declaration, and the package was verified against the two.
C27_Witness ==
  /\ ~flags.dry_run
  /\ flags.verify
  /\ ~flags.no_archive
  /\ IsSome(config.assets)
  /\ Len(Unwrap(config.assets)) = 1
  /\ Len(Unwrap(run_state.mutable_config.assets)) = 2
  /\ IsSome(config.output_dir)
  /\ Len(run_state.archive_entries) = 2
  /\ IsSome(run_state.rendered)
  /\ IsSome(run_state.verified)

-----------------------------------------------------------------------------
(* The invocation of the builder                                           *)

BuilderProcesses == SelectSeq(spawned, LAMBDA proc : proc.kind = "rpmbuild")

DefinesSourceDir(args) == \E i \in DOMAIN args : args[i] = "--define=_sourcedir"

\* C28: whenever the builder was spawned, the control file was copied to
\* SPECS and, with an archive, the archive to SOURCES; a copy that failed
\* left the builder unspawned; the builder is run once on the copied
\* control file, without a source directory exactly when there is an
\* archive, and with the project root as source directory and nothing
\* copied to SOURCES when there is none.
C28_InvokeStagesInputsBeforeSpawn ==
  /\ Len(BuilderProcesses) <= 1
  /\ BuilderProcesses # <<>> =>
       /\ disk.specs = "fresh"
       /\ IsSome(run_state.source_archive_path) <=> disk.sources = "fresh"
       /\ IsSome(run_state.source_archive_path)
            <=> ~DefinesSourceDir(BuilderProcesses[1].args)
       /\ BuildMode(BuilderProcesses[1].args) = {"-bb"}
       /\ ModeArgument(BuilderProcesses[1].args) = {"SPECS/spec"}
       /\ IsSome(run_state.source_archive_path) = ~flags.no_archive
  /\ (IsSome(error) /\ Unwrap(error).step = "Invoke"
        /\ Unwrap(error).kind \in {"IoError", "CopyFailed"}) => BuilderProcesses = <<>>
  /\ (StepSucceeded("Invoke")) => Len(BuilderProcesses) = 1

\* A run to the end with an archive, from a disk an earlier run used.
C28_Witness ==
  /\ pc = "Done"
  /\ IsSome(run_state.source_archive_path)
  /\ Len(BuilderProcesses) = 1
  /\ BuilderProcesses[1].status = 0
  /\ disk.sources = "fresh"
  /\ disk.specs = "fresh"
  /\ world.prior = UsedDisk

-----------------------------------------------------------------------------
(* What Cleanup removes                                                    *)

\* What lies outside target/revolve.
OutsideRevolve(d) ==
  [archive |-> d.archive, build_output |-> d.build_output,
   out_dir |-> d.out_dir, out |-> d.out]

\* C30: Cleanup removes target/revolve and nothing else, in a real run
\* only: a dry run keeps all that an earlier run left under target/revolve
\* (the control file may be written anew); in every run the files of the
\* output directory and the archive are the earlier ones or newer ones of
\* the same name, and right after Cleanup of a real run they are the
\* earlier ones and target/revolve is gone.
C30_CleanupRemovesOnlyWorkingState ==
  /\ flags.dry_run =>
       /\ disk.rpms = world.prior.rpms
       /\ disk.specs = world.prior.specs
       /\ disk.sources = world.prior.sources
       /\ world.prior.revolve => disk.revolve
       /\ world.prior.build_dir => disk.build_dir
       /\ world.prior.spec_file # "absent" => disk.spec_file # "absent"
  /\ pc # "Idle" =>
       /\ \A o \in world.prior.out : \E n \in disk.out : n.name = o.name
       /\ world.prior.archive # "absent" => disk.archive # "absent"
       /\ world.prior.out_dir => disk.out_dir
       /\ world.prior.build_output => disk.build_output
  /\ (pc = "DirectoryPrep" /\ ~flags.dry_run) =>
       /\ ~disk.revolve
       /\ ~disk.build_dir
       /\ disk.spec_file = "absent"
       /\ disk.specs = "absent"
       /\ disk.sources = "absent"
       /\ disk.rpms = {}
       /\ [OutsideRevolve(disk) EXCEPT !.build_output = TRUE]
            = [OutsideRevolve(world.prior) EXCEPT !.build_output = TRUE]

\* Right after the Cleanup of a real run over what an earlier run left.
C30_Witness ==
  /\ pc = "DirectoryPrep"
  /\ ~flags.dry_run
  /\ world.prior = UsedDisk
  /\ disk.rpms = {}
  /\ disk.out = UsedDisk.out
  /\ disk.archive = "stale"

-----------------------------------------------------------------------------
(* The entries of the archive                                              *)

ArchiveWritten == StepSucceeded("ArchiveCreate") /\ ~flags.dry_run

ResolvedManifest ==
  IF IsSome(run_state.mutable_config.assets)
    THEN Unwrap(run_state.mutable_config.assets) ELSE <<>>

\* One entry per asset of the manifest, in manifest order, under
\* <name>-<version>/<base name of the source>.
OneEntryPerAssetInOrder ==
  /\ Len(run_state.archive_entries) = Len(ResolvedManifest)
  /\ \A k \in DOMAIN ResolvedManifest :
       /\ run_state.archive_entries[k].source = ResolvedManifest[k].source
       /\ run_state.archive_entries[k].name
            = archive_root_dir \o <<"/">> \o file_name(ResolvedManifest[k].source)

\* The files that the entries of a given name hold.
HeldUnder(name) ==
  { source_path(run_state.archive_entries[j].source)
    : j \in {i \in DOMAIN run_state.archive_entries :
               run_state.archive_entries[i].name = name} }

\* C31: after the archive of a real run was written it has one entry per
\* asset of the resolved manifest, in manifest order, named
\* <name>-<version>/<base name of the source>, and the entry name of every
\* asset leads to that asset's file and to no other, base names shared by
\* two assets included.
C31_EveryAssetRetrievableByItsEntryName ==
  ArchiveWritten =>
    /\ OneEntryPerAssetInOrder
    /\ \A k \in DOMAIN ResolvedManifest :
         HeldUnder(run_state.archive_entries[k].name)
           = {source_path(ResolvedManifest[k].source)}

\* The entries are as claimed, and every name leads to one file where no
\* two assets of the manifest share a base name.
C31_HoldsForDistinctBaseNames ==
  ArchiveWritten =>
    /\ OneEntryPerAssetInOrder
    /\ (\A k, l \in DOMAIN ResolvedManifest :
          file_name(ResolvedManifest[k].source) = file_name(ResolvedManifest[l].source)
            => k = l)
       => \A k \in DOMAIN ResolvedManifest :
            HeldUnder(run_state.archive_entries[k].name)
              = {source_path(ResolvedManifest[k].source)}

-----------------------------------------------------------------------------
(* A builder that succeeds and leaves no package                           *)

NothingProduced == ~flags.dry_run /\ StepSucceeded("Invoke") /\ RpmsFound = {}

\* C32: in a real run whose builder exited with status zero and left no
\* .rpm file under RPMS, Collect fails only when the output directory
\* cannot be created or the directory cannot be read, never for want of a
\* package; when it succeeds it returns the empty list and copies nothing,
\* and then the run ends in success without --verify, and with --verify
\* goes on to Verify, which fails for want of a primary package with
\* nothing verified.
C32_EmptyBuildSucceedsUnlessVerified ==
  NothingProduced =>
    /\ (IsSome(error) /\ Unwrap(error).step = "Collect") =>
         \/ Unwrap(error).kind = "IoError" /\ IsSome(config.output_dir)
         \/ Unwrap(error).kind = "WalkFailed" /\ disk.rpms # {}
    /\ StepSucceeded("Collect") =>
         /\ run_state.artifacts = <<>>
         /\ disk.out = world.prior.out
         /\ IF flags.verify
              THEN pc \in {"Verify", "Failed"}
              ELSE pc = "Done" /\ error = None
    /\ "Verify" \in StepsDone =>
         /\ VerifyFailed
         /\ Unwrap(error).kind = "MainRpmNotFound"
         /\ ~IsSome(run_state.verified)
    /\ pc = "Done" => ~flags.verify

\* With --verify: the builder exited with zero, RPMS is empty, Collect
\* returned nothing and Verify failed.
C32_Witness ==
  /\ NothingProduced
  /\ flags.verify
  /\ disk.rpms = {}
  /\ Len(BuilderProcesses) = 1
  /\ BuilderProcesses[1].status = 0
  /\ StepSucceeded("Collect")
  /\ VerifyFailed
  /\ IsSome(config.output_dir)

\* Without --verify: the same run ends in success.
C32_WitnessWithoutVerify ==
  /\ NothingProduced
  /\ ~flags.verify
  /\ pc = "Done"
  /\ run_state.artifacts = <<>>

-----------------------------------------------------------------------------
(* What an expanded file inherits                                          *)

\* The number of files the first i declarations resolve to.
CountThrough(i) ==
  ResolvedCount(initial_assets, project_tree, 1)
    - ResolvedCount(initial_assets, project_tree, i + 1)

\* The declaration the k-th file of the manifest comes from, if the
\* manifest keeps the order of the declarations.
Owner(k) ==
  CHOOSE i \in DOMAIN initial_assets : CountThrough(i - 1) < k /\ k <= CountThrough(i)

\* A package that records every file of the manifest as a regular file of
\* mode 0644.
RecordedAt644(final_assets) ==
  [k \in DOMAIN final_assets |-> FileEntry(final_assets[k].dest, S_IFREG_644)]

\* C33: the manifest is the files of the first declaration, then those of
\* the second, and so on; every file has the mode and the mkdir flag of the
\* declaration it comes from and one of that declaration's destinations;
\* and the verifier, given a package that records every file with mode
\* 0644, reports exactly the files that come from a declaration with
\* another mode.
C33_ExpandedFilesInheritModeAndMkdir ==
  Expanded =>
    LET final_assets == Unwrap(expanded).final_assets
    IN /\ Len(final_assets) = CountThrough(Len(initial_assets))
       /\ \A k \in DOMAIN final_assets :
            LET declared == initial_assets[Owner(k)]
            IN /\ final_assets[k].mode = declared.mode
               /\ final_assets[k].mkdir = declared.mkdir
               /\ \E d \in ResolvedDests(declared, project_tree) :
                    PathEq(d, final_assets[k].dest)
       /\ verify_assets(RecordedAt644(final_assets), final_assets, 1,
                        [issues |-> 0, err |-> "none"])
            = [issues |-> Cardinality({k \in DOMAIN final_assets :
                                         initial_assets[Owner(k)].mode = Some(mode_755)}),
               err |-> "none"]

\* A directory of two files declared with mode 755 before a file declared
\* with mode 644, walked subdirectory first.
C33_Witness ==
  /\ Expanded
  /\ project_tree = TreeFirstDir
  /\ initial_assets = <<Asset(src_c, dest_e, Some(mode_755), TRUE),
                        Asset(src_x, dest_a_f, Some(mode_644), TRUE)>>
  /\ Len(Unwrap(expanded).final_assets) = 3
  /\ Unwrap(expanded).final_assets[1].dest = dest_e_n_b
  /\ Unwrap(expanded).final_assets[1].mode = Some(mode_755)
  /\ Unwrap(expanded).final_assets[2].mode = Some(mode_755)
  /\ Unwrap(expanded).final_assets[3] = initial_assets[2]

====
